---- MODULE Spec2Model ----
(***************************************************************************)
(* State-machine model of the document ingestion / indexing / retrieval    *)
(* pipeline of homework_rag02:                                              *)
(*   backend/services/financial_standardization_service.py  (stream)       *)
(*   backend/services/vector_store_service.py               (name, store)  *)
(*   backend/services/chunking_service.py                   (chunk)        *)
(*   backend/services/parsing_service.py                    (parse)        *)
(* Each component has its own variables and its own specification; a       *)
(* component that is not under study stays in its idle state.              *)
(* A Python string whose characters matter is a sequence of characters,    *)
(* each character a TLA+ string: "a" is the letter a, "HAN" one Chinese    *)
(* character, "EACUTE" the letter e with an acute accent.                  *)
(***************************************************************************)
EXTENDS Integers, Sequences, FiniteSets, TLC

VARIABLES
    sPc,        \* stream: position of the generator search_and_explain_stream
    sReq,       \* stream: the request and the behaviour of the collaborators
    sOut,       \* stream: the items the generator has yielded, in order
    sCalls,     \* stream: the external calls made so far, in order
    sDelivered, \* stream: the chunks the generative capability has delivered
    sRaised,    \* stream: TRUE when an exception reached the consumer
    sContext,   \* stream: candidates_str, the context built for the prompt
    ePc,        \* explain: "start" before the call to search_and_explain, "done" after
    eReq,       \* explain: the request and the behaviour of the collaborators
    eCalls,     \* explain: the external calls made, in order
    eContext,   \* explain: candidates_str, the context built for the prompt
    eRes,       \* explain: what search_and_explain returned or raised
    nFile,      \* name: the embedding file's filename and embedding_provider
    nClock,     \* name: the wall clock, in seconds
    nNames,     \* name: the outcome of each naming run so far, in call order
    cPc,        \* chunk: "start" before the call to chunk_text, "done" after it
    cReq,       \* chunk: the arguments of chunk_text
    cRes,       \* chunk: what chunk_text returned or raised
    pPc,        \* parse: "start" before the call to parse_file, "done" after it
    pReq,       \* parse: the arguments of parse_file and the file's behaviour
    pRes,       \* parse: what parse_file returned or raised
    calls,      \* store: per call of VectorStoreService, its request and progress
    connected,  \* store: pymilvus holds a connection under the alias "default"
    milvus,     \* store: the collections held by the Milvus server
    chroma,     \* store: the collections held in the Chroma directory
    now         \* store: the second at which the calls run

streamVars == <<sPc, sReq, sOut, sCalls, sDelivered, sRaised, sContext>>

explainVars == <<ePc, eReq, eCalls, eContext, eRes>>

nameVars == <<nFile, nClock, nNames>>

chunkVars == <<cPc, cReq, cRes>>

parseVars == <<pPc, pReq, pRes>>

storeVars == <<calls, connected, milvus, chroma, now>>

vars == <<streamVars, explainVars, nameVars, chunkVars, parseVars, storeVars>>

(***************************************************************************)
(* Generic helpers                                                         *)
(***************************************************************************)
SeqsUpTo(S, n) == UNION {[1..k -> S] : k \in 0..n}

RECURSIVE SelectIdx(_, _, _)
\* the indices i >= from of s, in order, at which Test(s[i]) holds
SelectIdx(s, Test(_), from) ==
    IF from > Len(s) THEN <<>>
    ELSE IF Test(s[from]) THEN <<from>> \o SelectIdx(s, Test, from + 1)
    ELSE SelectIdx(s, Test, from + 1)

(***************************************************************************)
(* Retriever / Augmentor: FinancialStandardizationService                  *)
(***************************************************************************)
MaxHits == 2        \* longest hit list the store returns
MaxFragments == 3   \* most chunks the generative capability delivers

Terms == {"t1", "t2"}
\* delta.content of one streamed chunk; "" stands for an empty or absent content
Fragments == {"", "x", "y"}

SearchOutcomes == {"embed_fails", "search_fails", "ok"}

\* hits is what the store would return; it is read only when the search succeeds
StreamRequests ==
    {r \in [apiKeyArg : BOOLEAN,      \* a non-empty api_key argument was passed
            envKey : BOOLEAN,         \* DEEPSEEK_API_KEY is set and non-empty
            clientAvail : BOOLEAN,    \* self.client is not None
            embedAvail : BOOLEAN,     \* self.embedding_function is not None
            searchOutcome : SearchOutcomes,
            hits : SeqsUpTo(Terms, MaxHits)] :
        (r.searchOutcome # "ok" \/ ~r.clientAvail \/ ~r.embedAvail) => r.hits = <<>>}

DataEvent(cands) == [tag |-> "DATA", candidates |-> cands, text |-> ""]
TextEvent(t) == [tag |-> "TEXT", candidates |-> <<>>, text |-> t]
ErrorEvent(m) == [tag |-> "ERROR", candidates |-> <<>>, text |-> m]

\* api_key argument first, then the environment variable
ResolveApiKey(req) == req.apiKeyArg \/ req.envKey

\* search_similar_terms without its try ... except: a failing call raises
SearchSimilarTermsUnguarded(req) ==
    IF ~req.clientAvail \/ ~req.embedAvail
    THEN [result |-> <<>>, calls |-> <<>>, raised |-> FALSE]
    ELSE IF req.searchOutcome = "embed_fails"
    THEN [result |-> <<>>, calls |-> <<"embed">>, raised |-> TRUE]
    ELSE IF req.searchOutcome = "search_fails"
    THEN [result |-> <<>>, calls |-> <<"embed", "store_search">>, raised |-> TRUE]
    ELSE [result |-> req.hits, calls |-> <<"embed", "store_search">>, raised |-> FALSE]

\* search_similar_terms: the candidates returned, the external calls made, and
\* whether an exception leaves the function
SearchSimilarTerms(req) ==
    IF ~req.clientAvail \/ ~req.embedAvail
    THEN [result |-> <<>>, calls |-> <<>>, raised |-> FALSE]
    ELSE IF req.searchOutcome = "embed_fails"
    THEN [result |-> <<>>, calls |-> <<"embed">>, raised |-> FALSE]
    ELSE IF req.searchOutcome = "search_fails"
    THEN [result |-> <<>>, calls |-> <<"embed", "store_search">>, raised |-> FALSE]
    ELSE [result |-> req.hits, calls |-> <<"embed", "store_search">>, raised |-> FALSE]

\* candidates_str: the bulleted block, or the 'no related terms found' note
CandidatesStr(cands) ==
    IF cands # <<>> THEN <<"related">> \o cands ELSE <<"none_found">>

\* StreamStart with the DATA event sent only for a non-empty candidate list
StreamStartSkipsEmptyData ==
    /\ sPc = "start"
    /\ IF ~ResolveApiKey(sReq)
       THEN /\ sOut' = Append(sOut, ErrorEvent("DeepSeek API key not provided"))
            /\ sPc' = "done"
            /\ UNCHANGED <<sCalls, sContext>>
       ELSE LET s == SearchSimilarTerms(sReq) IN
            /\ sCalls' = sCalls \o s.calls
            /\ IF s.raised
               THEN /\ sOut' = Append(sOut, ErrorEvent("search failed"))
                    /\ sPc' = "done"
                    /\ UNCHANGED sContext
               ELSE /\ sContext' = CandidatesStr(s.result)
                    /\ sOut' = IF s.result # <<>> THEN Append(sOut, DataEvent(s.result))
                               ELSE sOut
                    /\ sPc' = "data_sent"
    /\ UNCHANGED <<sReq, sDelivered, sRaised>>

\* first resumption: resolve the key, search, yield the DATA event
StreamStart ==
    /\ sPc = "start"
    /\ IF ~ResolveApiKey(sReq)
       THEN /\ sOut' = Append(sOut, ErrorEvent("DeepSeek API key not provided"))
            /\ sPc' = "done"
            /\ UNCHANGED <<sCalls, sContext>>
       ELSE LET s == SearchSimilarTerms(sReq) IN
            /\ sCalls' = sCalls \o s.calls
            /\ IF s.raised
               THEN /\ sOut' = Append(sOut, ErrorEvent("search failed"))
                    /\ sPc' = "done"
                    /\ UNCHANGED sContext
               ELSE /\ sContext' = CandidatesStr(s.result)
                    /\ sOut' = Append(sOut, DataEvent(s.result))
                    /\ sPc' = "data_sent"
    /\ UNCHANGED <<sReq, sDelivered, sRaised>>

\* second resumption: client.chat.completions.create(stream=True)
StreamCreate ==
    /\ sPc = "data_sent"
    /\ sCalls' = Append(sCalls, "llm")
    /\ \E ok \in BOOLEAN :
        IF ok
        THEN sPc' = "iter" /\ UNCHANGED sOut
        ELSE sPc' = "done" /\ sOut' = Append(sOut, ErrorEvent("create failed"))
    /\ UNCHANGED <<sReq, sDelivered, sRaised, sContext>>

\* StreamChunk without the test of delta.content: every chunk is yielded
StreamChunkYieldsEmpty ==
    /\ sPc = "iter"
    /\ Len(sDelivered) < MaxFragments
    /\ \E f \in Fragments :
        /\ sDelivered' = Append(sDelivered, f)
        /\ sOut' = Append(sOut, TextEvent(f))
    /\ UNCHANGED <<sPc, sReq, sCalls, sRaised, sContext>>

\* for chunk in response: one chunk arrives and is yielded when non-empty
StreamChunk ==
    /\ sPc = "iter"
    /\ Len(sDelivered) < MaxFragments
    /\ \E f \in Fragments :
        /\ sDelivered' = Append(sDelivered, f)
        /\ sOut' = IF f # "" THEN Append(sOut, TextEvent(f)) ELSE sOut
    /\ UNCHANGED <<sPc, sReq, sCalls, sRaised, sContext>>

\* the capability's stream ends: the generator returns
StreamEnd ==
    /\ sPc = "iter"
    /\ sPc' = "done"
    /\ UNCHANGED <<sReq, sOut, sCalls, sDelivered, sRaised, sContext>>

\* StreamFail with the ERROR event taking the place of what was yielded
StreamFailRetracts ==
    /\ sPc = "iter"
    /\ sOut' = <<ErrorEvent("stream failed")>>
    /\ sPc' = "done"
    /\ UNCHANGED <<sReq, sCalls, sDelivered, sRaised, sContext>>

\* the capability fails while streaming: except Exception yields ERROR
StreamFail ==
    /\ sPc = "iter"
    /\ sOut' = Append(sOut, ErrorEvent("stream failed"))
    /\ sPc' = "done"
    /\ UNCHANGED <<sReq, sCalls, sDelivered, sRaised, sContext>>

\* the consumer closes the generator while it is suspended at a yield
StreamClose ==
    /\ sPc \in {"data_sent", "iter"}
    /\ sPc' = "closed"
    /\ UNCHANGED <<sReq, sOut, sCalls, sDelivered, sRaised, sContext>>

InitStreamVars ==
    /\ sPc = "start"
    /\ sReq \in StreamRequests
    /\ sOut = <<>>
    /\ sCalls = <<>>
    /\ sDelivered = <<>>
    /\ sRaised = FALSE
    /\ sContext = <<>>

IdleStream ==
    /\ sPc = "off"
    /\ sReq = [apiKeyArg |-> FALSE, envKey |-> FALSE, clientAvail |-> FALSE,
               embedAvail |-> FALSE, searchOutcome |-> "ok", hits |-> <<>>]
    /\ sOut = <<>>
    /\ sCalls = <<>>
    /\ sDelivered = <<>>
    /\ sRaised = FALSE
    /\ sContext = <<>>

(***************************************************************************)
(* Retriever / Augmentor: search_and_explain, the call that returns the    *)
(* whole explanation                                                       *)
(***************************************************************************)
\* client.chat.completions.create raises, answers without content, or answers
LlmOutcomes == {"fails", "no_content", "ok"}

ExplainRequests == [req : StreamRequests, llmOutcome : LlmOutcomes]

NoExplanation == [status |-> "none", error |-> "", candidates |-> <<>>, explanation |-> ""]
ExplainRaised(err) == [NoExplanation EXCEPT !.status = "raised", !.error = err]
ExplainReturned(cands, text) ==
    [NoExplanation EXCEPT !.status = "ok", !.candidates = cands, !.explanation = text]

\* search_and_explain with the search made before the key is resolved
SearchAndExplainSearchFirst(r) ==
    LET s == SearchSimilarTerms(r.req) IN
    IF ~ResolveApiKey(r.req)
    THEN [calls |-> s.calls, context |-> CandidatesStr(s.result),
          res |-> ExplainRaised("DeepSeek API key not provided")]
    ELSE [calls |-> s.calls \o <<"llm">>, context |-> CandidatesStr(s.result),
          res |-> IF r.llmOutcome = "ok" THEN ExplainReturned(s.result, "text")
                  ELSE ExplainRaised(r.llmOutcome)]

\* search_and_explain: the external calls made, the context put in the prompt
\* and what the caller gets; except Exception re-raises
SearchAndExplain(r) ==
    IF ~ResolveApiKey(r.req)
    THEN [calls |-> <<>>, context |-> <<>>,
          res |-> ExplainRaised("DeepSeek API key not provided")]
    ELSE LET s == SearchSimilarTerms(r.req) IN
         IF s.raised
         THEN [calls |-> s.calls, context |-> <<>>, res |-> ExplainRaised("search failed")]
         ELSE [calls |-> s.calls \o <<"llm">>,
               context |-> CandidatesStr(s.result),
               res |-> IF r.llmOutcome = "ok" THEN ExplainReturned(s.result, "text")
                       ELSE ExplainRaised(r.llmOutcome)]

ExplainCall ==
    /\ ePc = "start"
    /\ LET e == SearchAndExplain(eReq) IN
        /\ eCalls' = e.calls
        /\ eContext' = e.context
        /\ eRes' = e.res
    /\ ePc' = "done"
    /\ UNCHANGED eReq

InitExplainVars ==
    /\ ePc = "start"
    /\ eReq \in ExplainRequests
    /\ eCalls = <<>>
    /\ eContext = <<>>
    /\ eRes = NoExplanation

IdleExplain ==
    /\ ePc = "off"
    /\ eReq = [req |-> [apiKeyArg |-> FALSE, envKey |-> FALSE, clientAvail |-> FALSE,
                        embedAvail |-> FALSE, searchOutcome |-> "ok", hits |-> <<>>],
               llmOutcome |-> "ok"]
    /\ eCalls = <<>>
    /\ eContext = <<>>
    /\ eRes = NoExplanation

(***************************************************************************)
(* Indexer: collection naming (_index_to_milvus and _index_to_chroma run   *)
(* the same statements)                                                    *)
(***************************************************************************)
MaxPieces == 3      \* a filename is made of at most this many pieces
RunLen == 62        \* length of the long run of letters a filename may hold
MaxClock == 1       \* the clock runs from second 0 to this second
MaxNameCalls == 2   \* naming runs per behaviour
MinNameLen == 3     \* if len(base_name) < 3
MaxNameLen == 63    \* elif len(base_name) > 63
SecondsPerMinute == 60
StampLen == 14      \* len of strftime("%Y%m%d%H%M%S")

Digits == {"0", "1", "2", "3", "4", "5", "6", "7", "8", "9"}
AsciiLetters ==
    {"a", "b", "c", "d", "e", "f", "g", "h", "i", "j", "k", "l", "m",
     "n", "o", "p", "q", "r", "s", "t", "u", "v", "w", "x", "y", "z"}
AsciiAlnum == AsciiLetters \cup Digits
\* str.isalnum() is Unicode-aware: true of every letter and digit
IsAlnum(c) == c \in AsciiAlnum \cup {"HAN", "EACUTE"}

RECURSIVE Flatten(_)
Flatten(ss) == IF ss = <<>> THEN <<>> ELSE Head(ss) \o Flatten(Tail(ss))

Repeat(c, n) == [i \in 1..n |-> c]

PdfSuffix == <<".", "p", "d", "f">>

FilePieces ==
    {<<"a">>, <<"_">>, <<"-">>, <<".">>, <<"HAN">>, <<"EACUTE">>,
     PdfSuffix, Repeat("a", RunLen)}

\* the "filename" values of the embedding file; <<>> is also a missing key
FileNames == {Flatten(ps) : ps \in SeqsUpTo(FilePieces, MaxPieces)}

\* the "embedding_provider" values; NoProvider is an absent key
NoProvider == <<"MISSING">>
Providers == {<<"o", "p", "e", "n", "a", "i">>, NoProvider}

HasPrefix(s, pre) ==
    Len(s) >= Len(pre) /\ SubSeq(s, 1, Len(pre)) = pre

\* the first index at which old occurs in s, 0 when it does not occur
FirstOccurrence(s, old) ==
    LET at == {i \in 1..(Len(s) - Len(old) + 1) : SubSeq(s, i, i + Len(old) - 1) = old}
    IN  IF at = {} THEN 0 ELSE CHOOSE i \in at : \A j \in at : i <= j

RECURSIVE ReplaceAll(_, _, _)
\* str.replace(old, new): every non-overlapping occurrence, left to right
ReplaceAll(s, old, new) ==
    LET i == FirstOccurrence(s, old) IN
    IF i = 0 THEN s
    ELSE SubSeq(s, 1, i - 1) \o new
         \o ReplaceAll(SubSeq(s, i + Len(old), Len(s)), old, new)

\* lazy_pinyin(..., style=Style.NORMAL) joined by '': a Chinese character
\* becomes its toneless Latin syllable, any other character is kept
LazyPinyin(s) == ReplaceAll(s, <<"HAN">>, <<"c", "a", "i">>)

RECURSIVE StripTrailing(_)
StripTrailing(s) ==
    IF s # <<>> /\ ~IsAlnum(s[Len(s)]) THEN StripTrailing(SubSeq(s, 1, Len(s) - 1))
    ELSE s

RECURSIVE StripLeading(_)
StripLeading(s) ==
    IF s # <<>> /\ ~IsAlnum(s[1]) THEN StripLeading(Tail(s)) ELSE s

KeepValid(s) == SelectSeq(s, LAMBDA c : IsAlnum(c) \/ c \in {"_", "-"})

PadOrTruncate(s) ==
    IF Len(s) < MinNameLen
    THEN SubSeq(s \o <<"_", "_", "_">>, 1, Len(s) + 3)
    ELSE IF Len(s) > MaxNameLen THEN SubSeq(s, 1, MaxNameLen)
    ELSE s

\* lines 170-201: base_name, or the IndexError of base_name[0] on an empty string
BaseName(filename) ==
    LET b1 == IF filename # <<>> THEN ReplaceAll(filename, PdfSuffix, <<>>)
              ELSE <<"d", "o", "c">>
        b2 == LazyPinyin(b1)
        b3 == ReplaceAll(b2, <<"-">>, <<"_">>)
    IN  IF b3 = <<>> THEN [ok |-> FALSE, base |-> <<>>]
        ELSE LET b4 == IF ~IsAlnum(b3[1]) THEN <<"d", "o", "c", "_">> \o b3 ELSE b3
                 b5 == KeepValid(b4)
                 b6 == PadOrTruncate(b5)
             IN  [ok |-> TRUE, base |-> StripLeading(StripTrailing(b6))]

DigitOf(n) == CHOOSE d \in Digits : d = ToString(n)

\* strftime("%Y%m%d%H%M") followed by "00": the seconds are not part of the stamp
TimestampToMinute(clock) ==
    <<"2", "0", "2", "6", "1", "1", "0", "1", "1", "2">>
    \o <<DigitOf((clock \div SecondsPerMinute) \div 10),
         DigitOf((clock \div SecondsPerMinute) % 10), "0", "0">>

\* strftime("%Y%m%d%H%M%S") of 2026-11-01 12:00:00 plus clock seconds
Timestamp(clock) ==
    <<"2", "0", "2", "6", "1", "1", "0", "1", "1", "2">>
    \o <<DigitOf((clock \div SecondsPerMinute) \div 10),
         DigitOf((clock \div SecondsPerMinute) % 10),
         DigitOf((clock % SecondsPerMinute) \div 10),
         DigitOf((clock % SecondsPerMinute) % 10)>>

ProviderOf(file) ==
    IF file.provider = NoProvider THEN <<"u", "n", "k", "n", "o", "w", "n">>
    ELSE file.provider

\* lines 170-206: collection_name, or the exception raised while deriving it
CollectionName(file, clock) ==
    LET b == BaseName(file.filename) IN
    IF ~b.ok THEN [ok |-> FALSE, base |-> <<>>, name |-> <<>>]
    ELSE [ok |-> TRUE, base |-> b.base,
          name |-> b.base \o <<"_">> \o ProviderOf(file) \o <<"_">> \o Timestamp(clock)]

\* one indexing call derives its collection name at the current second
DeriveName ==
    /\ nClock >= 0
    /\ Len(nNames) < MaxNameCalls
    /\ nNames' = Append(nNames, [at |-> nClock] @@ CollectionName(nFile, nClock))
    /\ UNCHANGED <<nFile, nClock>>

\* a second passes
Tick ==
    /\ nClock >= 0
    /\ nClock < MaxClock
    /\ nClock' = nClock + 1
    /\ UNCHANGED <<nFile, nNames>>

InitNameVars ==
    /\ nFile \in [filename : FileNames, provider : Providers]
    /\ nClock = 0
    /\ nNames = <<>>

IdleName ==
    /\ nFile = [filename |-> <<>>, provider |-> NoProvider]
    /\ nClock = -1
    /\ nNames = <<>>

(***************************************************************************)
(* Chunker: ChunkingService                                                *)
(***************************************************************************)
MaxPages == 2       \* longest PageMap
MaxMdSplits == 2    \* most sections the markdown header splitter returns

Whitespace == {" ", "\n"}

ChunkMethods ==
    {"by_pages", "fixed_size", "by_paragraphs", "by_sentences", "recursive",
     "markdown", "token"}
\* the methods that go through _apply_splitter
SplitterMethods == {"fixed_size", "by_sentences", "recursive", "token"}

PageTexts == {<<>>, <<"a">>, <<" ">>, <<"a", "\n", "\n", "b">>}
PageNumbers == {1, 2}
Pages == [page : PageNumbers, text : PageTexts]
\* <<>> is also page_map=None: both are falsy
PageMaps == SeqsUpTo(Pages, MaxPages)

\* what MarkdownHeaderTextSplitter.split_text returns: page_content and the
\* header metadata of each section
MdSections ==
    {[content |-> <<"a">>, headers |-> <<"Header 1">>],
     [content |-> <<"a", " ", "b">>, headers |-> <<>>]}

RECURSIVE LStrip(_)
LStrip(s) == IF s # <<>> /\ Head(s) \in Whitespace THEN LStrip(Tail(s)) ELSE s

RECURSIVE RStrip(_)
RStrip(s) ==
    IF s # <<>> /\ s[Len(s)] \in Whitespace THEN RStrip(SubSeq(s, 1, Len(s) - 1))
    ELSE s

\* str.strip()
Strip(s) == LStrip(RStrip(s))

\* len(s.split()): the number of maximal runs of non-whitespace characters
WordCount(s) ==
    Cardinality({i \in 1..Len(s) :
        s[i] \notin Whitespace /\ (i = 1 \/ s[i - 1] \in Whitespace)})

RECURSIVE SplitOn(_, _, _)
\* s.split(sep) for a non-empty sep; cur is the piece being read
SplitOn(s, sep, cur) ==
    IF s = <<>> THEN <<cur>>
    ELSE IF HasPrefix(s, sep)
    THEN <<cur>> \o SplitOn(SubSeq(s, Len(sep) + 1, Len(s)), sep, <<>>)
    ELSE SplitOn(Tail(s), sep, Append(cur, Head(s)))

RECURSIVE Segmentations(_)
\* the lists a text splitter may return for one text: the text cut into
\* consecutive segments at any set of positions, blank segments included
Segmentations(s) ==
    IF s = <<>> THEN {<<>>}
    ELSE UNION {{<<SubSeq(s, 1, k)>> \o r : r \in Segmentations(SubSeq(s, k + 1, Len(s)))} :
                k \in 1..Len(s)}

RECURSIVE SplitChoices(_)
\* one returned list per page of the PageMap
SplitChoices(pm) ==
    IF pm = <<>> THEN {<<>>}
    ELSE {<<h>> \o t : h \in Segmentations(Head(pm).text), t \in SplitChoices(Tail(pm))}

Chunk(content, id, page, words) ==
    [content |-> content, chunk_id |-> id, page_number |-> page,
     page_range |-> ToString(page), word_count |-> words, headers |-> <<>>]

RECURSIVE ChunkByPagesFrom(_, _)
ChunkByPagesFrom(chunks, pm) ==
    IF pm = <<>> THEN chunks
    ELSE LET pg == Head(pm) IN
         ChunkByPagesFrom(
             Append(chunks, Chunk(pg.text, Len(chunks) + 1, pg.page, WordCount(pg.text))),
             Tail(pm))

\* _chunk_by_pages treating a page as the splitters treat a segment: trimmed,
\* and dropped when blank
RECURSIVE ChunkByPagesTrimmedFrom(_, _)
ChunkByPagesTrimmedFrom(chunks, pm) ==
    IF pm = <<>> THEN chunks
    ELSE LET pg == Head(pm)
             t == Strip(pg.text)
         IN  ChunkByPagesTrimmedFrom(
                 IF t # <<>>
                 THEN Append(chunks, Chunk(t, Len(chunks) + 1, pg.page, WordCount(t)))
                 ELSE chunks,
                 Tail(pm))

ChunkByPagesTrimmed(pm) == ChunkByPagesTrimmedFrom(<<>>, pm)

\* _chunk_by_pages
ChunkByPages(pm) == ChunkByPagesFrom(<<>>, pm)

RECURSIVE AddParas(_, _, _)
AddParas(chunks, pg, paras) ==
    IF paras = <<>> THEN chunks
    ELSE LET para == Strip(Head(paras)) IN
         AddParas(
             IF para # <<>>
             THEN Append(chunks, Chunk(para, Len(chunks) + 1, pg.page, WordCount(para)))
             ELSE chunks,
             pg, Tail(paras))

RECURSIVE ChunkBySeparatorFrom(_, _, _)
ChunkBySeparatorFrom(chunks, pm, sep) ==
    IF pm = <<>> THEN chunks
    ELSE ChunkBySeparatorFrom(
             AddParas(chunks, Head(pm), SplitOn(Head(pm).text, sep, <<>>)),
             Tail(pm), sep)

\* _chunk_by_separator
ChunkBySeparator(pm, sep) == ChunkBySeparatorFrom(<<>>, pm, sep)

RECURSIVE AddSegments(_, _, _)
AddSegments(chunks, pg, segs) ==
    IF segs = <<>> THEN chunks
    ELSE LET t == Head(segs) IN
         AddSegments(
             IF Strip(t) # <<>>
             THEN Append(chunks, Chunk(Strip(t), Len(chunks) + 1, pg.page, WordCount(t)))
             ELSE chunks,
             pg, Tail(segs))

RECURSIVE ApplySplitterFrom(_, _, _)
ApplySplitterFrom(chunks, pm, splits) ==
    IF pm = <<>> THEN chunks
    ELSE ApplySplitterFrom(AddSegments(chunks, Head(pm), Head(splits)),
                           Tail(pm), Tail(splits))

RECURSIVE AddSegmentsByPosition(_, _, _, _)
AddSegmentsByPosition(chunks, pg, segs, pos) ==
    IF segs = <<>> THEN chunks
    ELSE LET t == Head(segs) IN
         AddSegmentsByPosition(
             IF Strip(t) # <<>>
             THEN Append(chunks, Chunk(Strip(t), pos, pg.page, WordCount(t)))
             ELSE chunks,
             pg, Tail(segs), pos + 1)

RECURSIVE ApplySplitterByPositionFrom(_, _, _)
ApplySplitterByPositionFrom(chunks, pm, splits) ==
    IF pm = <<>> THEN chunks
    ELSE ApplySplitterByPositionFrom(
             AddSegmentsByPosition(chunks, Head(pm), Head(splits), Len(chunks) + 1),
             Tail(pm), Tail(splits))

\* _apply_splitter with chunk_id taken from the segment's position in
\* split_texts, so that a dropped blank segment leaves a gap
ApplySplitterByPosition(pm, splits) == ApplySplitterByPositionFrom(<<>>, pm, splits)

\* _apply_splitter; splits[i] is splitter.split_text(page_map[i]['text'])
ApplySplitter(pm, splits) == ApplySplitterFrom(<<>>, pm, splits)

\* _chunk_markdown; mdSplits is splitter.split_text(text)
ChunkMarkdown(mdSplits) ==
    [i \in 1..Len(mdSplits) |->
        [content |-> mdSplits[i].content, chunk_id |-> i, page_number |-> 0,
         page_range |-> "", word_count |-> WordCount(mdSplits[i].content),
         headers |-> mdSplits[i].headers]]

\* ran lists the strategies chunk_text executed
Raised(kind) ==
    [status |-> "raised", error |-> kind, chunks |-> <<>>, total_chunks |-> 0,
     total_pages |-> 0, chunking_method |-> "", splits |-> <<>>, ran |-> <<>>]

ChunkReturnedDoc(method, pm, splits, chunks) ==
    [status |-> "ok", error |-> "", chunks |-> chunks,
     total_chunks |-> Len(chunks), total_pages |-> Len(pm),
     chunking_method |-> method,
     splits |-> IF method \in SplitterMethods THEN splits ELSE <<>>,
     ran |-> <<method>>]

ChunkDispatch(method, pm, splits, mdSplits) ==
    CASE method = "by_pages" -> ChunkByPages(pm)
      [] method = "by_paragraphs" -> ChunkBySeparator(pm, <<"\n", "\n">>)
      [] method = "markdown" -> ChunkMarkdown(mdSplits)
      [] OTHER -> ApplySplitter(pm, splits)

\* chunk_text without the check of the PageMap
ChunkTextNoPageMapCheck(method, pm, splits, mdSplits) ==
    IF method \notin ChunkMethods THEN Raised("unsupported_method")
    ELSE ChunkReturnedDoc(method, pm, splits, ChunkDispatch(method, pm, splits, mdSplits))

\* chunk_text with an unknown method falling back to by_pages
ChunkTextFallbackByPages(method, pm, splits, mdSplits) ==
    IF pm = <<>> /\ method # "markdown" THEN Raised("page_map_required")
    ELSE IF method \notin ChunkMethods
    THEN ChunkReturnedDoc("by_pages", pm, splits, ChunkByPages(pm))
    ELSE ChunkReturnedDoc(method, pm, splits, ChunkDispatch(method, pm, splits, mdSplits))

\* chunk_text; splits and mdSplits are what the external splitters return
ChunkText(method, pm, splits, mdSplits) ==
    IF pm = <<>> /\ method # "markdown" THEN Raised("page_map_required")
    ELSE IF method \notin ChunkMethods THEN Raised("unsupported_method")
    ELSE ChunkReturnedDoc(method, pm, splits, ChunkDispatch(method, pm, splits, mdSplits))

\* one call of chunk_text
ChunkCall ==
    /\ cPc = "start"
    /\ \E splits \in IF cReq.method \in SplitterMethods THEN SplitChoices(cReq.page_map)
                      ELSE {[i \in 1..Len(cReq.page_map) |-> <<>>]} :
       \E mdSplits \in IF cReq.method = "markdown" THEN SeqsUpTo(MdSections, MaxMdSplits)
                        ELSE {<<>>} :
        cRes' = ChunkText(cReq.method, cReq.page_map, splits, mdSplits)
    /\ cPc' = "done"
    /\ UNCHANGED cReq

InitChunkVars ==
    /\ cPc = "start"
    /\ cReq \in [method : ChunkMethods \cup {"bogus"}, page_map : PageMaps]
    /\ cRes = [status |-> "none"]

IdleChunk ==
    /\ cPc = "off"
    /\ cReq = [method |-> "by_pages", page_map |-> <<>>]
    /\ cRes = [status |-> "none"]

(***************************************************************************)
(* Chunker: by_sentences.  _chunk_recursive builds a                       *)
(* RecursiveCharacterTextSplitter with the separators ". ", "! ", "? ",    *)
(* "\n" and the library's defaults (the separator is kept at the start of  *)
(* the following piece, chunks are stripped); split_text is modelled for   *)
(* chunk_overlap = 0.                                                      *)
(***************************************************************************)
MaxSentenceLen == 4     \* longest generated page text

SentenceSeparators == <<<<".", " ">>, <<"!", " ">>, <<"?", " ">>, <<"\n">>>>
ThreeSentences == <<"A", ".", " ", "B", ".", " ", "C", ".">>
SentenceTexts == SeqsUpTo({"A", ".", " "}, MaxSentenceLen) \cup {ThreeSentences}
ChunkSizes == {2, 4, 50}

\* the first separator that occurs in the text and the separators after it;
\* the last separator when none occurs
PickSeparator(text, seps) ==
    LET found == {i \in 1..Len(seps) : FirstOccurrence(text, seps[i]) # 0}
    IN  IF found = {} THEN [sep |-> seps[Len(seps)], rest |-> <<>>]
        ELSE LET i == CHOOSE x \in found : \A y \in found : x <= y
             IN  [sep |-> seps[i], rest |-> SubSeq(seps, i + 1, Len(seps))]

NonEmptySeq(x) == x # <<>>

\* _split_text_with_regex with keep_separator: the separator opens the piece
\* that follows it; empty pieces are dropped
SplitKeepingSeparator(text, sep) ==
    LET parts == SplitOn(text, sep, <<>>)
        kept == [i \in 1..Len(parts) |-> IF i = 1 THEN parts[1] ELSE sep \o parts[i]]
    IN  SelectSeq(kept, NonEmptySeq)

\* _join_docs with the separator "": the pieces joined and stripped, nothing
\* when that is empty
JoinDocs(docs, cur) ==
    LET text == Strip(Flatten(cur)) IN
    IF text = <<>> THEN docs ELSE Append(docs, text)

RECURSIVE MergeSplitsFrom(_, _, _, _)
\* _merge_splits with chunk_overlap = 0: pieces are gathered while they fit
\* in chunk_size
MergeSplitsFrom(docs, cur, splits, size) ==
    IF splits = <<>> THEN JoinDocs(docs, cur)
    ELSE LET d == Head(splits) IN
         IF Len(Flatten(cur)) + Len(d) > size /\ cur # <<>>
         THEN MergeSplitsFrom(JoinDocs(docs, cur), <<d>>, Tail(splits), size)
         ELSE MergeSplitsFrom(docs, Append(cur, d), Tail(splits), size)

MergeSplits(splits, size) == MergeSplitsFrom(<<>>, <<>>, splits, size)

RECURSIVE RecursiveSplit(_, _, _)
RECURSIVE RecursiveSplitFrom(_, _, _, _, _)
\* the loop of _split_text over the pieces: short pieces are gathered and
\* merged, a long piece is split again with the remaining separators
RecursiveSplitFrom(final, good, splits, rest, size) ==
    IF splits = <<>>
    THEN IF good # <<>> THEN final \o MergeSplits(good, size) ELSE final
    ELSE LET piece == Head(splits) IN
         IF Len(piece) < size
         THEN RecursiveSplitFrom(final, Append(good, piece), Tail(splits), rest, size)
         ELSE LET flushed == IF good # <<>> THEN final \o MergeSplits(good, size) ELSE final
                  again == IF rest = <<>> THEN <<piece>> ELSE RecursiveSplit(piece, rest, size)
              IN  RecursiveSplitFrom(flushed \o again, <<>>, Tail(splits), rest, size)

\* RecursiveCharacterTextSplitter.split_text
RecursiveSplit(text, seps, size) ==
    LET pick == PickSeparator(text, seps)
    IN  RecursiveSplitFrom(<<>>, <<>>, SplitKeepingSeparator(text, pick.sep), pick.rest, size)

\* chunk_text(method="by_sentences") with chunk_overlap = 0
SentencesCall ==
    /\ cPc = "start"
    /\ LET pm == cReq.page_map
           splits == [i \in 1..Len(pm) |->
                         RecursiveSplit(pm[i].text, SentenceSeparators, cReq.chunk_size)]
       IN  cRes' = ChunkText(cReq.method, pm, splits, <<>>)
    /\ cPc' = "done"
    /\ UNCHANGED cReq

InitSentencesVars ==
    /\ cPc = "start"
    /\ cReq \in [method : {"by_sentences"},
                 page_map : {<<pg>> : pg \in [page : PageNumbers, text : SentenceTexts]},
                 chunk_size : ChunkSizes]
    /\ cRes = [status |-> "none"]

(***************************************************************************)
(* Parser: ParsingService                                                  *)
(***************************************************************************)
MaxParsePages == 2  \* longest PageMap given to parse_file
MaxPdfPages == 2    \* most physical pages of the file read by pdfplumber
TitleMaxLen == 100  \* len(line) < 100

ParseMethods == {"all_text", "by_pages", "by_titles", "text_and_tables", "hi_res"}
FileMethods == {"text_and_tables", "hi_res"}
UpperLetters == {"A", "B"}

\* NoPath is file_path=None or '': both are falsy
NoPath == "NONE"
FilePaths == {NoPath, "doc.pdf", "doc.md", "doc.txt"}

ParseTexts ==
    {<<"a">>, <<"A", "\n", "a">>, <<"1", "\n", " ", "\n", "a", "\n", "A">>, <<"a", "\n", "b">>}
ParsePages == [page : PageNumbers, text : ParseTexts]
ParsePageMaps == SeqsUpTo(ParsePages, MaxParsePages)

\* what pdfplumber finds on one physical page: the tables (an "EMPTY" table is
\* falsy), the text (<<>> is None or ''), and whether extraction raises
PdfPages ==
    [tables : {<<>>, <<"T">>, <<"EMPTY", "T">>}, text : {<<>>, <<"a">>}, fails : BOOLEAN]
PdfDocs == [openFails : BOOLEAN, pages : SeqsUpTo(PdfPages, MaxPdfPages)]
NoPdf == [openFails |-> FALSE, pages |-> <<>>]

\* how partition_pdf(strategy="hi_res") ends: by the message of its exception
HiResOutcomes == {"ok", "fail_hub", "fail_internet", "fail_other"}
\* how the other partition call (fast, partition_md, partition) ends
PartitionOutcomes == {"ok", "fail"}
NoPartition == [hi |-> "ok", other |-> "ok"]

Element(type, content, page, title) ==
    [type |-> type, content |-> content, page |-> page, title |-> title]

\* _parse_all_text
ParseAllText(pm) ==
    [i \in 1..Len(pm) |-> Element("Text", pm[i].text, pm[i].page, <<>>)]

\* _parse_by_pages
ParseByPages(pm) ==
    [i \in 1..Len(pm) |-> Element("Page", pm[i].text, pm[i].page, <<>>)]

\* str.isupper(): some cased character and no lower-case one
IsUpper(line) ==
    /\ \E i \in 1..Len(line) : line[i] \in UpperLetters
    /\ \A i \in 1..Len(line) : line[i] \notin AsciiLetters

IsTitleLine(line) ==
    Len(line) < TitleMaxLen /\ (IsUpper(line) \/ line[1] \in Digits)

\* '\n'.join(lines)
JoinLines(lines) ==
    IF lines = <<>> THEN <<>>
    ELSE Flatten([i \in 1..Len(lines) |->
                    IF i = 1 THEN lines[i] ELSE <<"\n">> \o lines[i]])

RECURSIVE TitlesOverLines(_, _, _, _)
\* the loop body of _parse_by_titles over the lines of one page
TitlesOverLines(st, lines, page, k) ==
    IF k > Len(lines) THEN st
    ELSE LET line == Strip(lines[k]) IN
         IF line = <<>> THEN TitlesOverLines(st, lines, page, k + 1)
         ELSE IF IsTitleLine(line)
         THEN TitlesOverLines(
                  [parsed |-> IF st.content # <<>>
                              THEN Append(st.parsed,
                                          Element("section", JoinLines(st.content), page, st.title))
                              ELSE st.parsed,
                   title |-> line, content |-> <<>>],
                  lines, page, k + 1)
         ELSE TitlesOverLines([st EXCEPT !.content = Append(@, line)], lines, page, k + 1)

RECURSIVE TitlesOverPages(_, _, _)
TitlesOverPages(st, pm, i) ==
    IF i > Len(pm) THEN st
    ELSE TitlesOverPages(
             TitlesOverLines(st, SplitOn(pm[i].text, <<"\n">>, <<>>), pm[i].page, 1),
             pm, i + 1)

\* _parse_by_titles without the flush after the loop
ParseByTitlesNoFlush(pm) ==
    TitlesOverPages(
        [parsed |-> <<>>,
         title |-> <<"I", "n", "t", "r", "o", "d", "u", "c", "t", "i", "o", "n">>,
         content |-> <<>>], pm, 1).parsed

\* _parse_by_titles
ParseByTitles(pm) ==
    LET st == TitlesOverPages(
                  [parsed |-> <<>>,
                   title |-> <<"I", "n", "t", "r", "o", "d", "u", "c", "t", "i", "o", "n">>,
                   content |-> <<>>], pm, 1)
    IN  IF st.content # <<>>
        THEN Append(st.parsed,
                    Element("section", JoinLines(st.content),
                            IF pm # <<>> THEN pm[Len(pm)].page ELSE 0, st.title))
        ELSE st.parsed

\* PdfPageElements with the page's text placed before its tables
PdfPageElementsTextFirst(pg, i) ==
    LET tabs == SelectSeq(pg.tables, LAMBDA t : t # "EMPTY") IN
    (IF pg.text # <<>> THEN <<Element("text", pg.text, i, <<>>)>> ELSE <<>>)
    \o [j \in 1..Len(tabs) |-> Element("table", <<tabs[j]>>, i, <<>>)]

\* the elements one physical page contributes: its non-empty tables, then its text
PdfPageElements(pg, i) ==
    LET tabs == SelectSeq(pg.tables, LAMBDA t : t # "EMPTY") IN
    [j \in 1..Len(tabs) |-> Element("table", <<tabs[j]>>, i, <<>>)]
    \o (IF pg.text # <<>> THEN <<Element("text", pg.text, i, <<>>)>> ELSE <<>>)

\* the pages before the first one whose extraction fails
PagesBeforeFailure(pages) ==
    IF \E i \in 1..Len(pages) : pages[i].fails
    THEN SubSeq(pages, 1, (CHOOSE i \in 1..Len(pages) :
                              pages[i].fails /\ \A j \in 1..(i - 1) : ~pages[j].fails) - 1)
    ELSE pages

\* _parse_with_pdfplumber returning what it had collected when a page fails
ParseWithPdfplumberPartial(doc) ==
    IF doc.openFails THEN <<>>
    ELSE LET done == PagesBeforeFailure(doc.pages) IN
         Flatten([i \in 1..Len(done) |-> PdfPageElements(done[i], i)])

\* _parse_with_pdfplumber: any exception discards what was collected
ParseWithPdfplumber(doc) ==
    IF doc.openFails \/ \E i \in 1..Len(doc.pages) : doc.pages[i].fails THEN <<>>
    ELSE Flatten([i \in 1..Len(doc.pages) |-> PdfPageElements(doc.pages[i], i)])

FileExt(path) ==
    CASE path = "doc.pdf" -> ".pdf" [] path = "doc.md" -> ".md" [] OTHER -> ".txt"

\* _parse_with_unstructured falling back to fast on every hi_res failure
ParseWithUnstructuredAnyFailure(path, part) ==
    IF FileExt(path) = ".pdf"
    THEN IF part.hi = "ok"
         THEN [content |-> <<Element("title", <<"A">>, 1, <<>>)>>, attempts |-> <<"hi_res">>]
         ELSE IF part.other = "ok"
              THEN [content |-> <<Element("text", <<"a">>, 1, <<>>)>>,
                    attempts |-> <<"hi_res", "fast">>]
              ELSE [content |-> <<>>, attempts |-> <<"hi_res", "fast">>]
    ELSE IF part.other = "ok"
         THEN [content |-> <<Element("text", <<"a">>, 1, <<>>)>>,
               attempts |-> <<IF FileExt(path) = ".md" THEN "md" ELSE "auto">>]
         ELSE [content |-> <<>>,
               attempts |-> <<IF FileExt(path) = ".md" THEN "md" ELSE "auto">>]

\* _parse_with_unstructured: the elements returned and the partition calls made
ParseWithUnstructured(path, part) ==
    IF FileExt(path) = ".pdf"
    THEN IF part.hi = "ok"
         THEN [content |-> <<Element("title", <<"A">>, 1, <<>>)>>, attempts |-> <<"hi_res">>]
         ELSE IF part.hi \in {"fail_hub", "fail_internet"}
         THEN IF part.other = "ok"
              THEN [content |-> <<Element("text", <<"a">>, 1, <<>>)>>,
                    attempts |-> <<"hi_res", "fast">>]
              ELSE [content |-> <<>>, attempts |-> <<"hi_res", "fast">>]
         ELSE [content |-> <<>>, attempts |-> <<"hi_res">>]
    ELSE IF part.other = "ok"
         THEN [content |-> <<Element("text", <<"a">>, 1, <<>>)>>,
               attempts |-> <<IF FileExt(path) = ".md" THEN "md" ELSE "auto">>]
         ELSE [content |-> <<>>,
               attempts |-> <<IF FileExt(path) = ".md" THEN "md" ELSE "auto">>]

ParseRaised(method) ==
    [status |-> "raised", content |-> <<>>, total_pages |-> 0,
     parsing_method |-> method, ran |-> <<>>, attempts |-> <<>>]

ParseOk(method, pm, content, ran) ==
    [status |-> "ok", content |-> content, total_pages |-> Len(pm),
     parsing_method |-> method, ran |-> ran, attempts |-> <<>>]

\* the else branch with _parse_all_text in the place of _parse_by_pages
ParseFallbackAllText(method, pm) ==
    IF pm # <<>> THEN ParseOk(method, pm, ParseAllText(pm), <<"all_text">>)
    ELSE ParseRaised(method)

\* the else branch with a file-based method rejected when it has no file path
ParseFallbackStrict(method, pm) ==
    IF pm # <<>> /\ method \notin FileMethods
    THEN ParseOk(method, pm, ParseByPages(pm), <<"by_pages">>)
    ELSE ParseRaised(method)

\* lines 56-61: the else branch of the dispatch
ParseFallback(method, pm) ==
    IF pm # <<>> THEN ParseOk(method, pm, ParseByPages(pm), <<"by_pages">>)
    ELSE ParseRaised(method)

\* parse_file; ran lists the strategies executed, attempts the partition calls
\* of the hi_res strategy
ParseFile(method, pm, path, pdf, part) ==
    IF method = "all_text" /\ pm # <<>>
    THEN ParseOk(method, pm, ParseAllText(pm), <<"all_text">>)
    ELSE IF method = "by_pages" /\ pm # <<>>
    THEN ParseOk(method, pm, ParseByPages(pm), <<"by_pages">>)
    ELSE IF method = "by_titles" /\ pm # <<>>
    THEN ParseOk(method, pm, ParseByTitles(pm), <<"by_titles">>)
    ELSE IF method = "text_and_tables" /\ path # NoPath
    THEN ParseOk(method, pm, ParseWithPdfplumber(pdf), <<"text_and_tables">>)
    ELSE IF method = "hi_res" /\ path # NoPath
    THEN LET u == ParseWithUnstructured(path, part) IN
         [ParseOk(method, pm, u.content, <<"hi_res">>) EXCEPT !.attempts = u.attempts]
    ELSE ParseFallback(method, pm)

\* one call of parse_file
ParseCall ==
    /\ pPc = "start"
    /\ pRes' = ParseFile(pReq.method, pReq.page_map, pReq.file_path, pReq.pdf, pReq.part)
    /\ pPc' = "done"
    /\ UNCHANGED pReq

\* the file's behaviour is drawn only where the dispatch reads it
ParseRequests ==
    {r \in [method : ParseMethods \cup {"bogus"}, page_map : ParsePageMaps,
            file_path : FilePaths, pdf : {NoPdf}, part : {NoPartition}] :
        ~(r.method \in FileMethods /\ r.file_path # NoPath)}
    \cup [method : {"text_and_tables"}, page_map : SeqsUpTo(ParsePages, 1),
          file_path : {"doc.pdf"}, pdf : PdfDocs, part : {NoPartition}]
    \cup [method : {"hi_res"}, page_map : SeqsUpTo(ParsePages, 1),
          file_path : FilePaths \ {NoPath}, pdf : {NoPdf},
          part : [hi : HiResOutcomes, other : PartitionOutcomes]]

InitParseVars ==
    /\ pPc = "start"
    /\ pReq \in ParseRequests
    /\ pRes = [status |-> "none"]

IdleParse ==
    /\ pPc = "off"
    /\ pReq = [method |-> "by_pages", page_map |-> <<>>, file_path |-> NoPath,
               pdf |-> NoPdf, part |-> NoPartition]
    /\ pRes = [status |-> "none"]

(***************************************************************************)
(* Indexer: VectorStoreService.  A call is split at its calls to the       *)
(* vector store; calls of different requests interleave at these points.   *)
(* pymilvus keeps its connections in one process-wide registry keyed by    *)
(* alias, and every call here uses the alias "default".                    *)
(***************************************************************************)
NumCalls == 2       \* calls of the service in one behaviour
MaxRecords == 2     \* most embedding records in a file
NoDim == -1         \* the file has no vector_dimension key

Calls == 1..NumCalls
CallKinds == {"index", "list", "delete", "describe"}
SimpleKinds == {"list", "delete", "describe"}
\* config.provider; "other" is any value that is neither milvus nor chroma
StoreProviders == {"milvus", "chroma", "other"}
IndexModes == {"flat", "ivf_flat", "ivf_sq8", "hnsw", "bogus"}

OldName == <<"o", "l", "d">>
OpenAi == <<"o", "p", "e", "n", "a", "i">>

\* the content of the embedding file: shape says whether it is a JSON object
\* and has the key "embeddings"; records holds the length of each record's vector
BadFiles ==
    [shape : {"not_dict", "no_embeddings"}, filename : {<<"a">>}, provider : {OpenAi},
     vector_dimension : {2}, records : {<<>>}]
GoodFiles ==
    [shape : {"ok"}, filename : {<<>>, <<"a">> \o PdfSuffix, PdfSuffix},
     provider : {OpenAi}, vector_dimension : {NoDim, 0, 2, 3},
     records : SeqsUpTo({2, 3}, MaxRecords)]
PlainFile ==
    [shape |-> "ok", filename |-> <<"a">> \o PdfSuffix, provider |-> OpenAi,
     vector_dimension |-> 2, records |-> <<2>>]

NoResult ==
    [status |-> "none", error |-> "", collection_name |-> <<>>, total_vectors |-> 0,
     index_size |-> 0]
RaisedResult(err) == [NoResult EXCEPT !.status = "raised", !.error = err]
\* list_collections, delete_collection and get_collection_info return a value
ReturnedResult == [NoResult EXCEPT !.status = "ok"]
\* the dictionary index_embeddings returns
IndexResult(name, total, size) ==
    [NoResult EXCEPT !.status = "ok", !.collection_name = name,
                     !.total_vectors = total, !.index_size = size]

Request(kind, provider, file, mode, target) ==
    [pc |-> "start", kind |-> kind, provider |-> provider, file |-> file,
     index_mode |-> mode, target |-> target, name |-> <<>>, step |-> 0,
     log |-> <<>>, result |-> NoResult]
OffCall == [Request("list", "other", PlainFile, "flat", OldName) EXCEPT !.pc = "off"]

\* index_mode is read by the Milvus provider only
StoreRequests ==
    {Request("index", pr, f, "flat", OldName) :
        pr \in StoreProviders, f \in BadFiles \cup GoodFiles}
    \cup {Request("index", "milvus", PlainFile, m, OldName) : m \in IndexModes}
    \cup {Request(k, pr, PlainFile, "flat", OldName) : k \in SimpleKinds, pr \in StoreProviders}
\* the Milvus requests that run concurrently
ConcurrentRequests ==
    {Request(k, "milvus", PlainFile, "flat", OldName) : k \in CallKinds}

Event(op, n) == [op |-> op, n |-> n]

\* _load_embeddings without the check of the file's shape
LoadEmbeddingsUnchecked(file) == TRUE

\* _load_embeddings: TRUE when the data is returned, FALSE when it raises
LoadEmbeddings(file) == file.shape = "ok"

\* lines 215-217: the dimension, or the exception raised for a missing one
MilvusVectorDim(file) ==
    IF file.shape # "ok" \/ file.vector_dimension = NoDim
    THEN [ok |-> FALSE, error |-> "TypeError", dim |-> 0]
    ELSE IF file.vector_dimension = 0
    THEN [ok |-> FALSE, error |-> "Missing vector_dimension in embedding file", dim |-> 0]
    ELSE [ok |-> TRUE, error |-> "", dim |-> file.vector_dimension]

\* lines 403-405: the dimension is the length of the first record's vector
ChromaVectorDim(file) == IF file.records # <<>> THEN file.records[1] ELSE 0

\* _get_milvus_index_type with the mode itself, in capitals, as the default
MilvusIndexTypeNoDefault(mode) ==
    CASE mode = "flat" -> "FLAT" [] mode = "ivf_flat" -> "IVF_FLAT"
      [] mode = "ivf_sq8" -> "IVF_SQ8" [] mode = "hnsw" -> "HNSW" [] OTHER -> "BOGUS"

\* config.py lines 11-16 and line 44: MILVUS_CONFIG["index_types"].get(mode, "FLAT")
MilvusIndexType(mode) ==
    CASE mode = "flat" -> "FLAT" [] mode = "ivf_flat" -> "IVF_FLAT"
      [] mode = "ivf_sq8" -> "IVF_SQ8" [] mode = "hnsw" -> "HNSW" [] OTHER -> "FLAT"

\* config.py lines 17-25 and line 56: the keys of
\* MILVUS_CONFIG["index_params"].get(mode, {})
MilvusIndexParams(mode) ==
    CASE mode \in {"ivf_flat", "ivf_sq8"} -> <<"nlist">>
      [] mode = "hnsw" -> <<"M", "efConstruction">>
      [] OTHER -> <<>>

\* the store calls of _index_to_milvus after the connection, with insert and
\* create_index exchanged
MilvusIndexStepsIndexFirst == <<"create", "create_index", "insert", "flush", "load">>

\* lines 294-308: the store calls of _index_to_milvus after the connection
MilvusIndexSteps == <<"create", "insert", "flush", "create_index", "load">>

\* where control goes when a statement inside try raises: a delete call skips
\* its finally block
AfterRaiseNoFinally(kind) == IF kind = "delete" THEN "done" ELSE "finally"

\* where control goes when a statement inside try ... finally raises
AfterRaise(kind) == "finally"

Collection(name, dim) ==
    [name |-> name, dim |-> dim, entities |-> 0, index_type |-> "NONE",
     index_params |-> <<>>, loaded |-> FALSE]
Named(store, name) == {c \in store : c.name = name}
Update(store, c, d) == (store \ {c}) \cup {d}

\* the effect of one successful store call of _index_to_milvus on the server
MilvusApply(store, c, op) ==
    LET dim == MilvusVectorDim(c.file).dim
        old == Named(store, c.name)
    IN  IF op = "create"
        THEN IF old = {} THEN store \cup {Collection(c.name, dim)} ELSE store
        ELSE IF old = {} THEN store
        ELSE LET e == CHOOSE x \in old : TRUE IN
             CASE op = "insert" ->
                      Update(store, e, [e EXCEPT !.entities = @ + Len(c.file.records)])
               [] op = "create_index" ->
                      Update(store, e, [e EXCEPT !.index_type = MilvusIndexType(c.index_mode),
                                                 !.index_params = MilvusIndexParams(c.index_mode)])
               [] op = "load" -> Update(store, e, [e EXCEPT !.loaded = TRUE])
               [] OTHER -> store

\* whether the server can accept the call: the connection registered under
\* "default" must still exist, the collection must fit what is sent
MilvusAccepts(store, c, op) ==
    /\ connected
    /\ op = "create" =>
          \A e \in Named(store, c.name) : e.dim = MilvusVectorDim(c.file).dim
    /\ op # "create" => Named(store, c.name) # {}
    /\ op = "insert" =>
          /\ c.file.records # <<>>
          /\ \A e \in Named(store, c.name) :
                \A i \in 1..Len(c.file.records) : c.file.records[i] = e.dim

SetCall(p, c) == calls' = [calls EXCEPT ![p] = c]
Logged(c, op, n) == [c EXCEPT !.log = Append(@, Event(op, n))]
Raise(c, err) == [c EXCEPT !.pc = AfterRaise(c.kind), !.result = RaisedResult(err)]

\* index_embeddings up to connections.connect of _index_to_milvus, and the
\* connect of list_collections, delete_collection and get_collection_info
MilvusConnect(p) ==
    LET c == calls[p]
        nm == CollectionName(c.file, now)
    IN  /\ c.pc = "start"
        /\ c.provider = "milvus"
        /\ IF c.kind = "index" /\ ~LoadEmbeddings(c.file)
           THEN /\ SetCall(p, [c EXCEPT !.pc = "done",
                                        !.result = RaisedResult("Invalid embedding file format")])
                /\ UNCHANGED connected
           ELSE IF c.kind = "index" /\ (c.file.shape # "ok" \/ ~nm.ok)
           THEN /\ SetCall(p, Raise(c, "naming"))
                /\ UNCHANGED connected
           ELSE \E ok \in BOOLEAN :
                LET d == Logged([c EXCEPT !.name = IF c.kind = "index" THEN nm.name
                                                   ELSE c.target],
                                "connect", 0)
                IN  IF ok
                    THEN SetCall(p, [d EXCEPT !.pc = "connected"]) /\ connected' = TRUE
                    ELSE SetCall(p, Raise(d, "connect")) /\ UNCHANGED connected
        /\ UNCHANGED <<milvus, chroma, now>>

\* MilvusIndexOp with a failed store call followed by a drop of the collection
MilvusIndexOpDropsOnFailure(p) ==
    LET c == calls[p]
        op == MilvusIndexSteps[c.step + 1]
        dim == MilvusVectorDim(c.file)
        n == IF op = "insert" THEN Len(c.file.records) ELSE 0
    IN  /\ c.pc = "connected"
        /\ c.kind = "index"
        /\ IF op = "create" /\ ~dim.ok
           THEN SetCall(p, Raise(c, dim.error)) /\ UNCHANGED milvus
           ELSE \E ok \in BOOLEAN :
                /\ ok => MilvusAccepts(milvus, c, op)
                /\ IF ~ok
                   THEN /\ SetCall(p, Raise(Logged(c, op, n), op))
                        /\ milvus' = milvus \ Named(milvus, c.name)
                   ELSE /\ milvus' = MilvusApply(milvus, c, op)
                        /\ IF c.step + 1 < Len(MilvusIndexSteps)
                           THEN SetCall(p, [Logged(c, op, n) EXCEPT !.step = @ + 1])
                           ELSE SetCall(p, [Logged(c, op, n) EXCEPT
                                    !.step = @ + 1,
                                    !.pc = "finally",
                                    !.result = IndexResult(c.name, Len(c.file.records),
                                                           Len(c.file.records))])
        /\ UNCHANGED <<connected, chroma, now>>

\* the next store call of _index_to_milvus; the statements between two store
\* calls run with the later one
MilvusIndexOp(p) ==
    LET c == calls[p]
        op == MilvusIndexSteps[c.step + 1]
        dim == MilvusVectorDim(c.file)
        n == IF op = "insert" THEN Len(c.file.records) ELSE 0
    IN  /\ c.pc = "connected"
        /\ c.kind = "index"
        /\ IF op = "create" /\ ~dim.ok
           THEN SetCall(p, Raise(c, dim.error)) /\ UNCHANGED milvus
           ELSE \E ok \in BOOLEAN :
                /\ ok => MilvusAccepts(milvus, c, op)
                /\ IF ~ok
                   THEN SetCall(p, Raise(Logged(c, op, n), op)) /\ UNCHANGED milvus
                   ELSE /\ milvus' = MilvusApply(milvus, c, op)
                        /\ IF c.step + 1 < Len(MilvusIndexSteps)
                           THEN SetCall(p, [Logged(c, op, n) EXCEPT !.step = @ + 1])
                           ELSE SetCall(p, [Logged(c, op, n) EXCEPT
                                    !.step = @ + 1,
                                    !.pc = "finally",
                                    !.result = IndexResult(c.name, Len(c.file.records),
                                                           Len(c.file.records))])
        /\ UNCHANGED <<connected, chroma, now>>

\* utility.list_collections, utility.drop_collection, or Collection(name) with
\* num_entities and schema
MilvusSimpleOp(p) ==
    LET c == calls[p] IN
    /\ c.pc = "connected"
    /\ c.kind \in SimpleKinds
    /\ \E ok \in BOOLEAN :
        /\ ok => connected
        /\ ok /\ c.kind = "describe" => Named(milvus, c.target) # {}
        /\ IF ~ok
           THEN SetCall(p, Raise(Logged(c, c.kind, 0), c.kind)) /\ UNCHANGED milvus
           ELSE /\ SetCall(p, [Logged(c, c.kind, 0) EXCEPT !.pc = "finally",
                                                          !.result = ReturnedResult])
                /\ milvus' = IF c.kind = "delete" THEN milvus \ Named(milvus, c.target)
                             ELSE milvus
    /\ UNCHANGED <<connected, chroma, now>>

\* finally: connections.disconnect("default")
MilvusDisconnect(p) ==
    LET c == calls[p] IN
    /\ c.pc = "finally"
    /\ SetCall(p, [Logged(c, "disconnect", 0) EXCEPT !.pc = "done"])
    /\ connected' = FALSE
    /\ UNCHANGED <<milvus, chroma, now>>

\* index_embeddings with the Chroma provider: _load_embeddings, _index_to_chroma
ChromaIndex(p) ==
    LET c == calls[p]
        nm == CollectionName(c.file, now)
        dim == ChromaVectorDim(c.file)
        n == Len(c.file.records)
        done(d, res) == SetCall(p, [d EXCEPT !.pc = "done", !.result = res])
    IN  /\ c.pc = "start"
        /\ c.kind = "index"
        /\ c.provider = "chroma"
        /\ IF ~LoadEmbeddings(c.file)
           THEN done(c, RaisedResult("Invalid embedding file format")) /\ UNCHANGED chroma
           ELSE IF c.file.shape # "ok" \/ ~nm.ok
           THEN done(c, RaisedResult("naming")) /\ UNCHANGED chroma
           ELSE IF dim = 0
           THEN done(c, RaisedResult("No embeddings found or embeddings have zero dimension"))
                /\ UNCHANGED chroma
           ELSE \E failAt \in 0..3 :
                LET d1 == Logged(c, "chroma_create", 0)
                    d2 == Logged(d1, "chroma_add", n)
                    d3 == Logged(d2, "chroma_persist", 0)
                    made == IF Named(chroma, nm.name) = {}
                            THEN chroma \cup {Collection(nm.name, dim)} ELSE chroma
                    e == CHOOSE x \in Named(made, nm.name) : TRUE
                    added == Update(made, e, [e EXCEPT !.entities = @ + n])
                IN  CASE failAt = 1 -> done(d1, RaisedResult("chroma_create")) /\ UNCHANGED chroma
                      [] failAt = 2 -> done(d2, RaisedResult("chroma_add")) /\ chroma' = made
                      [] failAt = 3 -> done(d3, RaisedResult("chroma_persist")) /\ chroma' = added
                      [] OTHER -> /\ \A i \in 1..n : c.file.records[i] = e.dim
                                  /\ done([d3 EXCEPT !.name = nm.name],
                                          IndexResult(nm.name, n, n))
                                  /\ chroma' = added
        /\ UNCHANGED <<connected, milvus, now>>

\* list_collections, delete_collection, get_collection_info with the Chroma
\* provider: an exception is logged and an empty value returned
ChromaSimple(p) ==
    LET c == calls[p] IN
    /\ c.pc = "start"
    /\ c.kind \in SimpleKinds
    /\ c.provider = "chroma"
    /\ \E ok \in BOOLEAN :
        /\ SetCall(p, [Logged(c, c.kind, 0) EXCEPT !.pc = "done", !.result = ReturnedResult])
        /\ chroma' = IF ok /\ c.kind = "delete" THEN chroma \ Named(chroma, c.target)
                     ELSE chroma
    /\ UNCHANGED <<connected, milvus, now>>

\* any other provider: index_embeddings raises after loading the file, the
\* other calls return an empty value
OtherProvider(p) ==
    LET c == calls[p] IN
    /\ c.pc = "start"
    /\ c.provider = "other"
    /\ SetCall(p, [c EXCEPT
            !.pc = "done",
            !.result = IF c.kind # "index" THEN ReturnedResult
                       ELSE IF ~LoadEmbeddings(c.file)
                       THEN RaisedResult("Invalid embedding file format")
                       ELSE RaisedResult("Unsupported vector database provider")])
    /\ UNCHANGED <<connected, milvus, chroma, now>>

\* the stores are empty or hold one collection made earlier
StoreContents == {{}, {[Collection(OldName, 2) EXCEPT !.entities = 1]}}

\* one call, any request
InitStoreVars ==
    /\ calls \in {[p \in Calls |-> IF p = 1 THEN r ELSE OffCall] : r \in StoreRequests}
    /\ connected = FALSE
    /\ milvus \in StoreContents
    /\ chroma = milvus
    /\ now = 0

\* concurrent Milvus calls
InitConcurrentVars ==
    /\ calls \in [Calls -> ConcurrentRequests]
    /\ connected = FALSE
    /\ milvus \in StoreContents
    /\ chroma = {}
    /\ now = 0

IdleStore ==
    /\ calls = [p \in Calls |-> OffCall]
    /\ connected = FALSE
    /\ milvus = {}
    /\ chroma = {}
    /\ now = 0

(***************************************************************************)
(* Specifications: one per component, the other components idle            *)
(***************************************************************************)
\* SPECS-BEGIN
InitStream == InitStreamVars /\ IdleExplain /\ IdleName /\ IdleChunk /\ IdleParse /\ IdleStore

NextStream ==
    \/ StreamStart /\ UNCHANGED <<explainVars, nameVars, chunkVars, parseVars, storeVars>>
    \/ StreamCreate /\ UNCHANGED <<explainVars, nameVars, chunkVars, parseVars, storeVars>>
    \/ StreamChunk /\ UNCHANGED <<explainVars, nameVars, chunkVars, parseVars, storeVars>>
    \/ StreamEnd /\ UNCHANGED <<explainVars, nameVars, chunkVars, parseVars, storeVars>>
    \/ StreamFail /\ UNCHANGED <<explainVars, nameVars, chunkVars, parseVars, storeVars>>
    \/ StreamClose /\ UNCHANGED <<explainVars, nameVars, chunkVars, parseVars, storeVars>>

SpecStream == InitStream /\ [][NextStream]_vars

InitExplain == InitExplainVars /\ IdleStream /\ IdleName /\ IdleChunk /\ IdleParse /\ IdleStore

NextExplain ==
    \/ ExplainCall /\ UNCHANGED <<streamVars, nameVars, chunkVars, parseVars, storeVars>>

SpecExplain == InitExplain /\ [][NextExplain]_vars

InitName == InitNameVars /\ IdleStream /\ IdleExplain /\ IdleChunk /\ IdleParse /\ IdleStore

NextName ==
    \/ DeriveName /\ UNCHANGED <<streamVars, explainVars, chunkVars, parseVars, storeVars>>
    \/ Tick /\ UNCHANGED <<streamVars, explainVars, chunkVars, parseVars, storeVars>>

SpecName == InitName /\ [][NextName]_vars

InitChunk == InitChunkVars /\ IdleStream /\ IdleExplain /\ IdleName /\ IdleParse /\ IdleStore

NextChunk ==
    \/ ChunkCall /\ UNCHANGED <<streamVars, explainVars, nameVars, parseVars, storeVars>>

SpecChunk == InitChunk /\ [][NextChunk]_vars

InitParse == InitParseVars /\ IdleStream /\ IdleExplain /\ IdleName /\ IdleChunk /\ IdleStore

NextParse ==
    \/ ParseCall /\ UNCHANGED <<streamVars, explainVars, nameVars, chunkVars, storeVars>>

SpecParse == InitParse /\ [][NextParse]_vars

InitStore == InitStoreVars /\ IdleStream /\ IdleExplain /\ IdleName /\ IdleChunk /\ IdleParse

NextStore ==
    \/ (\E p \in Calls : MilvusConnect(p)) /\ UNCHANGED <<streamVars, explainVars, nameVars, chunkVars, parseVars>>
    \/ (\E p \in Calls : MilvusIndexOp(p)) /\ UNCHANGED <<streamVars, explainVars, nameVars, chunkVars, parseVars>>
    \/ (\E p \in Calls : MilvusSimpleOp(p)) /\ UNCHANGED <<streamVars, explainVars, nameVars, chunkVars, parseVars>>
    \/ (\E p \in Calls : MilvusDisconnect(p)) /\ UNCHANGED <<streamVars, explainVars, nameVars, chunkVars, parseVars>>
    \/ (\E p \in Calls : ChromaIndex(p)) /\ UNCHANGED <<streamVars, explainVars, nameVars, chunkVars, parseVars>>
    \/ (\E p \in Calls : ChromaSimple(p)) /\ UNCHANGED <<streamVars, explainVars, nameVars, chunkVars, parseVars>>
    \/ (\E p \in Calls : OtherProvider(p)) /\ UNCHANGED <<streamVars, explainVars, nameVars, chunkVars, parseVars>>

SpecStore == InitStore /\ [][NextStore]_vars

InitSentences == InitSentencesVars /\ IdleStream /\ IdleExplain /\ IdleName /\ IdleParse /\ IdleStore

NextSentences ==
    \/ SentencesCall /\ UNCHANGED <<streamVars, explainVars, nameVars, parseVars, storeVars>>

SpecSentences == InitSentences /\ [][NextSentences]_vars

InitConcurrent == InitConcurrentVars /\ IdleStream /\ IdleExplain /\ IdleName /\ IdleChunk /\ IdleParse

NextConcurrent ==
    \/ (\E p \in Calls : MilvusConnect(p)) /\ UNCHANGED <<streamVars, explainVars, nameVars, chunkVars, parseVars>>
    \/ (\E p \in Calls : MilvusIndexOp(p)) /\ UNCHANGED <<streamVars, explainVars, nameVars, chunkVars, parseVars>>
    \/ (\E p \in Calls : MilvusSimpleOp(p)) /\ UNCHANGED <<streamVars, explainVars, nameVars, chunkVars, parseVars>>
    \/ (\E p \in Calls : MilvusDisconnect(p)) /\ UNCHANGED <<streamVars, explainVars, nameVars, chunkVars, parseVars>>

SpecConcurrent == InitConcurrent /\ [][NextConcurrent]_vars

InitRetrieve == InitStream \/ InitExplain

NextRetrieve == NextStream \/ NextExplain

SpecRetrieve == InitRetrieve /\ [][NextRetrieve]_vars

Init == InitStream \/ InitExplain \/ InitName \/ InitChunk \/ InitParse \/ InitStore \/ InitSentences \/ InitConcurrent

Next == NextStream \/ NextExplain \/ NextName \/ NextChunk \/ NextParse \/ NextStore

Spec == Init /\ [][Next]_vars
\* SPECS-END

(***************************************************************************)
(* Claims about the Indexer's collection naming                            *)
(***************************************************************************)
\* ^[A-Za-z0-9][A-Za-z0-9_-]{1,61}[A-Za-z0-9]$
MatchesNameRegex(n) ==
    /\ Len(n) >= 3
    /\ Len(n) <= 63
    /\ n[1] \in AsciiAlnum
    /\ n[Len(n)] \in AsciiAlnum
    /\ \A i \in 1..Len(n) : n[i] \in AsciiAlnum \cup {"_", "-"}

\* C2 as stated: every collection name an indexing call produces matches
\* ^[A-Za-z0-9][A-Za-z0-9_-]{1,61}[A-Za-z0-9]$ and is 3 to 63 characters long,
\* the _{embedding_provider}_{timestamp} suffix included.
C2_NameMatchesRegex ==
    \A i \in 1..Len(nNames) : nNames[i].ok => MatchesNameRegex(nNames[i].name)

(***************************************************************************)
(* Claims about the Parser                                                 *)
(***************************************************************************)
ParseEnded == pPc = "done"
IsByPagesContent(content, pm) ==
    /\ Len(content) = Len(pm)
    /\ \A i \in 1..Len(pm) :
           /\ content[i].type = "Page"
           /\ content[i].content = pm[i].text
           /\ content[i].page = pm[i].page

C7_UnknownMethodFallback ==
    (ParseEnded /\ pReq.method \notin ParseMethods) =>
        IF pReq.page_map # <<>>
        THEN pRes.status = "ok" /\ IsByPagesContent(pRes.content, pReq.page_map)
        ELSE pRes.status = "raised" /\ pRes.content = <<>>

\* an unknown method with a two-page PageMap has returned two Page elements
C7_Witness ==
    /\ ParseEnded
    /\ pReq.method = "bogus"
    /\ Len(pReq.page_map) = 2
    /\ pRes.status = "ok"
    /\ Len(pRes.content) = 2

(***************************************************************************)
(* Claims about the Chunker                                                *)
(***************************************************************************)
ChunkReturned == cPc = "done" /\ cRes.status = "ok"

\* C3: when a chunking call returns, with any of the seven methods, the
\* chunk_id values of the returned chunks are exactly 1..N in emission order
\* and total_chunks equals N, the number of chunks.
C3_ChunkIdsContiguous ==
    ChunkReturned =>
        /\ cRes.total_chunks = Len(cRes.chunks)
        /\ \A i \in 1..Len(cRes.chunks) : cRes.chunks[i].chunk_id = i

\* a splitter method dropped a blank segment of the first page and emitted
\* chunks from two pages
C3_Witness ==
    /\ ChunkReturned
    /\ cReq.method = "fixed_size"
    /\ Len(cRes.chunks) >= 2
    /\ cRes.chunks[1].page_number # cRes.chunks[Len(cRes.chunks)].page_number
    /\ \E j \in 1..Len(cRes.splits[1]) :
           /\ Strip(cRes.splits[1][j]) = <<>>
           /\ \E k \in (j + 1)..Len(cRes.splits[1]) : Strip(cRes.splits[1][k]) # <<>>

(***************************************************************************)
(* Claims about the Retriever / Augmentor                                  *)
(***************************************************************************)
IsData(e) == e.tag = "DATA"
IsText(e) == e.tag = "TEXT"
IsError(e) == e.tag = "ERROR"
DataIdx == SelectIdx(sOut, IsData, 1)
TextIdx == SelectIdx(sOut, IsText, 1)
StreamEnded == sPc = "done"

\* C1 as stated: every finished run of search_and_explain_stream, whatever the
\* API-key outcome, has emitted exactly one DATA event, before the first text.
C1_Original ==
    StreamEnded =>
        /\ Len(DataIdx) = 1
        /\ TextIdx # <<>> => DataIdx[1] < TextIdx[1]

\* C1 amended: at every moment there is at most one DATA event and no text
\* fragment without a DATA event before it; a finished run in which an API key
\* was resolved has emitted exactly one DATA event (also for no candidates);
\* a finished run with no API key has emitted the single ERROR event and no DATA.
C1_DataOnceBeforeText ==
    /\ Len(DataIdx) <= 1
    /\ TextIdx # <<>> => (DataIdx # <<>> /\ DataIdx[1] < TextIdx[1])
    /\ (StreamEnded /\ ResolveApiKey(sReq)) =>
            (DataIdx = <<1>> /\ sOut[1] = DataEvent(SearchSimilarTerms(sReq).result))
    /\ (StreamEnded /\ ~ResolveApiKey(sReq)) =>
            sOut = <<ErrorEvent("DeepSeek API key not provided")>>

\* a finished run with a key, an empty candidate list and generated text
C1_Witness ==
    /\ StreamEnded
    /\ ResolveApiKey(sReq)
    /\ DataIdx = <<1>>
    /\ sOut[1].candidates = <<>>
    /\ Len(TextIdx) >= 2

(***************************************************************************)
(* Claims about the Indexer's calls to the vector store                    *)
(***************************************************************************)
IndexEnded(p) == calls[p].pc = "done" /\ calls[p].kind = "index"
\* the operations of a call's log, in order
Ops(log) == [i \in 1..Len(log) |-> log[i].op]
IsStoreInteraction(op) ==
    op \in {"connect", "create", "insert", "chroma_create", "chroma_add"}
IsBuildStep(op) == op \in {"create", "insert", "create_index", "load"}
IsPrefix(s, t) == Len(s) <= Len(t) /\ SubSeq(t, 1, Len(s)) = s
HasOp(log, op) == \E i \in 1..Len(log) : log[i].op = op
\* the ValueErrors raised for the content of the embedding file
FormatErrors ==
    {"Invalid embedding file format", "Missing vector_dimension in embedding file",
     "No embeddings found or embeddings have zero dimension"}

\* C4: when the embedding file has no vector_dimension, an indexing call with
\* the Milvus or the Chroma provider ends with a format error, and no store
\* interaction (connect, create collection, insert) happened before it.
C4_NoDimensionIsFormatError ==
    \A p \in Calls :
        (/\ IndexEnded(p)
         /\ calls[p].provider \in {"milvus", "chroma"}
         /\ calls[p].file.shape = "ok"
         /\ calls[p].file.vector_dimension = NoDim)
        => /\ calls[p].result.status = "raised"
           /\ calls[p].result.error \in FormatErrors
           /\ \A i \in 1..Len(calls[p].log) : ~IsStoreInteraction(calls[p].log[i].op)

\* C5: when the file content is not an object with the key "embeddings",
\* index_embeddings raises the format error before any store connection is
\* opened and before any collection is created, whatever the provider.
C5_FormatErrorBeforeStore ==
    \A p \in Calls :
        (IndexEnded(p) /\ calls[p].file.shape # "ok")
        => /\ calls[p].result = RaisedResult("Invalid embedding file format")
           /\ calls[p].log = <<>>
           /\ ~connected
           /\ \A c \in milvus \cup chroma : c.name = OldName /\ c.entities = 1

C5_Witness ==
    \E p \in Calls :
        /\ IndexEnded(p)
        /\ calls[p].provider = "milvus"
        /\ calls[p].file.shape = "no_embeddings"
        /\ calls[p].result.status = "raised"
        /\ milvus # {}

\* C8: when a Milvus index, list, delete or describe call has ended, by
\* return or by an error at any step, disconnect was called after the last
\* connect of the call, and the connection is closed.
C8_ConnectionReleased ==
    \A p \in Calls :
        (calls[p].pc = "done" /\ calls[p].provider = "milvus")
        => LET ops == Ops(calls[p].log) IN
           /\ \A i \in 1..Len(ops) :
                 ops[i] = "connect" => \E j \in (i + 1)..Len(ops) : ops[j] = "disconnect"
           /\ ~connected

\* a call that failed at a step between connect and return, and one that returned
C8_Witness ==
    \E p \in Calls :
        /\ calls[p].pc = "done"
        /\ calls[p].provider = "milvus"
        /\ calls[p].kind = "delete"
        /\ calls[p].result.status = "raised"
        /\ Ops(calls[p].log) = <<"connect", "delete", "disconnect">>

\* C9: when two Milvus calls interleave, the release done by one never closes
\* the connection the other is using between its own acquire and release.
C9_ConnectionNotShared ==
    \A p \in Calls : calls[p].pc = "connected" => connected

\* C10: in a Milvus indexing call the store is asked, in this order and each
\* at most once, to create the collection, insert all the records in one
\* call, build the index and load the collection; the success result comes
\* only after the load.
C10_MilvusStepOrder ==
    \A p \in Calls :
        (calls[p].kind = "index" /\ calls[p].provider = "milvus")
        => LET log == calls[p].log
               done == SelectSeq(Ops(log), IsBuildStep)
           IN  /\ IsPrefix(done, <<"create", "insert", "create_index", "load">>)
               /\ \A i \in 1..Len(log) :
                     log[i].op = "insert" => log[i].n = Len(calls[p].file.records)
               /\ calls[p].result.status = "ok" => HasOp(log, "load")

C10_Witness ==
    \E p \in Calls :
        /\ IndexEnded(p)
        /\ calls[p].provider = "milvus"
        /\ calls[p].result.status = "ok"
        /\ calls[p].index_mode = "hnsw"
        /\ Ops(calls[p].log) =
              <<"connect", "create", "insert", "flush", "create_index", "load", "disconnect">>

\* the collection an ended indexing call reports, in the store of its provider
StoreOf(provider) == IF provider = "milvus" THEN milvus ELSE chroma

\* C11: after a successful indexing call with the Milvus or the Chroma
\* provider, the dimension of the collection's vector field is the file's
\* vector_dimension, and the number of stored entities, total_vectors and
\* index_size are the number of embedding records of the file.
C11_DimensionAndCount ==
    \A p \in Calls :
        (/\ IndexEnded(p)
         /\ calls[p].provider \in {"milvus", "chroma"}
         /\ calls[p].result.status = "ok")
        => LET c == calls[p]
               n == Len(c.file.records)
           IN  /\ c.result.total_vectors = n
               /\ c.result.index_size = n
               /\ \E e \in Named(StoreOf(c.provider), c.result.collection_name) :
                     /\ e.dim = c.file.vector_dimension
                     /\ e.entities = n

(***************************************************************************)
(* Claims about the Retriever's credential and failure handling            *)
(***************************************************************************)
NoKeyError == "DeepSeek API key not provided"
ExplainEnded == ePc = "done"

\* C12 as stated: with no API key resolvable, search_and_explain and
\* search_and_explain_stream each raise a validation error to the caller, and
\* neither the vector search nor the generative capability is called.
C12_Original ==
    /\ (ExplainEnded /\ ~ResolveApiKey(eReq.req))
       => eRes.status = "raised" /\ eCalls = <<>>
    /\ (StreamEnded /\ ~ResolveApiKey(sReq))
       => sRaised /\ sCalls = <<>>

\* C12 amended: with no API key resolvable, search_and_explain raises the
\* validation error to the caller, search_and_explain_stream yields it as its
\* single ERROR event and raises nothing, and in both no search and no
\* generative call is made.
C12_NoKeyNoCalls ==
    /\ (ExplainEnded /\ ~ResolveApiKey(eReq.req))
       => eRes = ExplainRaised(NoKeyError) /\ eCalls = <<>>
    /\ (sPc \notin {"off", "start"} /\ ~ResolveApiKey(sReq))
       => /\ sPc = "done"
          /\ sOut = <<ErrorEvent(NoKeyError)>>
          /\ sCalls = <<>>
          /\ ~sRaised

\* no key, while the store client and the embedding function are available
C12_Witness ==
    /\ ExplainEnded
    /\ ~ResolveApiKey(eReq.req)
    /\ eReq.req.clientAvail /\ eReq.req.embedAvail
    /\ eRes.status = "raised"

NonEmptyFragment(f) == f # ""
\* the text events of the fragments delivered so far, the empty ones left out
TextEventsOf(delivered) ==
    LET kept == SelectSeq(delivered, NonEmptyFragment)
    IN  [i \in 1..Len(kept) |-> TextEvent(kept[i])]
HasErrorEvent == \E i \in 1..Len(sOut) : IsError(sOut[i])

\* C13: when generation fails after search_and_explain_stream has started to
\* emit, the sequence holds exactly one ERROR event, it is the last item, no
\* exception reaches the consumer, and the DATA event and every text fragment
\* emitted before the failure are still there, unchanged and in order.
C13_ErrorEventIsFinal ==
    (StreamEnded /\ ResolveApiKey(sReq) /\ HasErrorEvent)
    => /\ ~sRaised
       /\ IsError(sOut[Len(sOut)])
       /\ SubSeq(sOut, 1, Len(sOut) - 1) =
             <<DataEvent(SearchSimilarTerms(sReq).result)>> \o TextEventsOf(sDelivered)

\* a failure after two fragments were emitted
C13_Witness ==
    /\ StreamEnded
    /\ ResolveApiKey(sReq)
    /\ Len(sOut) = 4
    /\ IsData(sOut[1]) /\ IsText(sOut[2]) /\ IsText(sOut[3]) /\ IsError(sOut[4])

\* the store client or the embedding function is missing, or a call of the
\* search fails
SearchDegraded(req) ==
    ~req.clientAvail \/ ~req.embedAvail \/ req.searchOutcome # "ok"
NoneFound == <<"none_found">>

\* C14: search_similar_terms never raises: with the store client or the
\* embedding function unavailable, or the embedding or search call failing, it
\* returns the empty sequence, and search_and_explain and
\* search_and_explain_stream go on to the generative call with the 'no related
\* terms found' context.
C14_SearchDegradesToEmpty ==
    /\ (ExplainEnded /\ ResolveApiKey(eReq.req) /\ SearchDegraded(eReq.req))
       => /\ eCalls # <<>> /\ eCalls[Len(eCalls)] = "llm"
          /\ eContext = NoneFound
          /\ eRes.status = "ok" => eRes.candidates = <<>>
          /\ eRes.status = "raised" => eRes.error \in LlmOutcomes
    /\ (sPc \in {"data_sent", "iter", "done"} /\ ResolveApiKey(sReq) /\ SearchDegraded(sReq))
       => /\ sOut # <<>> /\ sOut[1] = DataEvent(<<>>)
          /\ sContext = NoneFound
          /\ sPc \in {"iter", "done"} => sCalls # <<>> /\ sCalls[Len(sCalls)] = "llm"

\* the store search failed and the stream went on to deliver text
C14_Witness ==
    /\ StreamEnded
    /\ ResolveApiKey(sReq)
    /\ sReq.clientAvail /\ sReq.embedAvail /\ sReq.searchOutcome = "search_fails"
    /\ sCalls = <<"embed", "store_search", "llm">>
    /\ \E i \in 1..Len(sOut) : IsText(sOut[i])

(***************************************************************************)
(* Claims about the Chunker's preconditions and the by_pages strategy      *)
(***************************************************************************)
ChunkEnded == cPc = "done"

\* C15: chunk_text with a method other than markdown and no PageMap raises
\* and executes no splitter or strategy; with the method markdown and no
\* PageMap it does not fail for the missing PageMap.
C15_PageMapRequired ==
    (ChunkEnded /\ cReq.page_map = <<>>)
    => IF cReq.method # "markdown"
       THEN cRes.status = "raised" /\ cRes.error = "page_map_required" /\ cRes.ran = <<>>
       ELSE cRes.status = "ok" /\ cRes.ran = <<"markdown">> /\ cRes.total_pages = 0

\* by_pages with no PageMap, and markdown with no PageMap returning sections
C15_Witness ==
    /\ ChunkEnded
    /\ cReq.page_map = <<>>
    /\ \/ cReq.method = "by_pages" /\ cRes.status = "raised"
       \/ cReq.method = "markdown" /\ cRes.status = "ok" /\ cRes.total_chunks = 2

\* C16 as stated: chunk_text with a method key outside the seven known ones
\* fails with the unsupported-method error and returns no document, with or
\* without a PageMap.
C16_Original ==
    (ChunkEnded /\ cReq.method \notin ChunkMethods)
    => cRes.status = "raised" /\ cRes.error = "unsupported_method" /\ cRes.chunks = <<>>

\* C16 amended: chunk_text with a method key outside the seven known ones
\* fails and returns no document; the error is the unsupported-method error
\* when a non-empty PageMap is supplied and the page-map-required error when
\* none is.
C16_UnknownMethodFails ==
    (ChunkEnded /\ cReq.method \notin ChunkMethods)
    => /\ cRes.status = "raised"
       /\ cRes.chunks = <<>> /\ cRes.ran = <<>>
       /\ cRes.error = IF cReq.page_map = <<>> THEN "page_map_required"
                       ELSE "unsupported_method"

C16_Witness ==
    /\ ChunkEnded
    /\ cReq.method = "bogus"
    /\ Len(cReq.page_map) = 2
    /\ cRes.error = "unsupported_method"

\* C17 as stated: by_pages on a PageMap of length k, k = 0 included, returns
\* exactly k chunks in PageMap order, the i-th with the i-th page's text,
\* untrimmed, as content and the page's number as a string as page_range.
C17_Original ==
    (ChunkEnded /\ cReq.method = "by_pages")
    => /\ cRes.status = "ok"
       /\ Len(cRes.chunks) = Len(cReq.page_map)
       /\ \A i \in 1..Len(cReq.page_map) :
             /\ cRes.chunks[i].content = cReq.page_map[i].text
             /\ cRes.chunks[i].page_range = ToString(cReq.page_map[i].page)

\* C17 amended: by_pages on a PageMap of length k >= 1 returns exactly k
\* chunks in PageMap order, the i-th with the i-th page's text, untrimmed, as
\* content and the page's number as a string as page_range; on an empty
\* PageMap it raises the page-map-required error.
C17_ByPagesOnePerPage ==
    (ChunkEnded /\ cReq.method = "by_pages")
    => IF cReq.page_map = <<>>
       THEN cRes.status = "raised" /\ cRes.error = "page_map_required"
       ELSE /\ cRes.status = "ok"
            /\ Len(cRes.chunks) = Len(cReq.page_map)
            /\ cRes.total_chunks = Len(cReq.page_map)
            /\ \A i \in 1..Len(cReq.page_map) :
                  /\ cRes.chunks[i].content = cReq.page_map[i].text
                  /\ cRes.chunks[i].page_range = ToString(cReq.page_map[i].page)
                  /\ cRes.chunks[i].chunk_id = i

\* two pages, the first blank, the second with inner newlines
C17_Witness ==
    /\ ChunkEnded
    /\ cReq.method = "by_pages"
    /\ Len(cReq.page_map) = 2
    /\ cReq.page_map[1].text = <<" ">>
    /\ cReq.page_map[2].page = 1
    /\ cRes.status = "ok"
    /\ cRes.chunks[1].content = <<" ">>

\* C18: by_sentences chunking of the single page {page: 1, text: 'A. B. C.'}
\* with chunk_size = 50 and chunk_overlap = 0 returns the three chunks 'A.',
\* 'B.', 'C.' with chunk_id 1, 2, 3 and page_number 1.
C18_ThreeSentencesThreeChunks ==
    (/\ ChunkEnded
     /\ cReq.method = "by_sentences"
     /\ cReq.page_map = <<[page |-> 1, text |-> ThreeSentences]>>
     /\ "chunk_size" \in DOMAIN cReq
     /\ cReq.chunk_size = 50)
    => /\ cRes.status = "ok"
       /\ Len(cRes.chunks) = 3
       /\ cRes.chunks[1].content = <<"A", ".">>
       /\ cRes.chunks[2].content = <<"B", ".">>
       /\ cRes.chunks[3].content = <<"C", ".">>
       /\ \A i \in 1..3 : cRes.chunks[i].chunk_id = i /\ cRes.chunks[i].page_number = 1

(***************************************************************************)
(* Claims about the '.pdf' suffix and the timestamp of a collection name   *)
(***************************************************************************)
\* the positions of a '.pdf' that is not the end of the filename
InnerPdfAt(f) ==
    {i \in 1..(Len(f) - Len(PdfSuffix)) : SubSeq(f, i, i + Len(PdfSuffix) - 1) = PdfSuffix}
WithoutPdfAt(f, i) == SubSeq(f, 1, i - 1) \o SubSeq(f, i + Len(PdfSuffix), Len(f))

\* C19: '.pdf' is removed from the filename only where it is the trailing
\* suffix; an inner '.pdf' is kept for the later steps, so a filename and the
\* same filename without an inner '.pdf' do not get the same base name.
C19_InnerPdfKept ==
    \A k \in 1..Len(nNames) :
        \A i \in InnerPdfAt(nFile.filename) :
            nNames[k].ok => nNames[k].base # BaseName(WithoutPdfAt(nFile.filename, i)).base

\* C20: for one filename and embedding_provider the collection name depends
\* on the second of the call only: two indexing calls at different seconds
\* get distinct names, two calls within the same second get the same name.
C20_NameFollowsSecond ==
    \A i, j \in 1..Len(nNames) :
        (nNames[i].ok /\ nNames[j].ok)
        => (nNames[i].name = nNames[j].name <=> nNames[i].at = nNames[j].at)

\* two calls for the same file one second apart
C20_Witness ==
    /\ Len(nNames) = 2
    /\ nNames[1].ok /\ nNames[2].ok
    /\ nNames[1].at # nNames[2].at
    /\ nNames[1].name # nNames[2].name
    /\ nFile.filename # <<>>

(***************************************************************************)
(* Claims about failures of an indexing call and the index parameters      *)
(***************************************************************************)
\* the store calls an indexing call has completed: in its log every call but
\* the last was answered, and the last one too when the call returned
CompletedOps(c) ==
    LET ops == SelectSeq(Ops(c.log), LAMBDA o : o \notin {"connect", "disconnect"})
    IN  IF c.result.status = "ok" THEN ops ELSE SubSeq(ops, 1, Len(ops) - 1)
Completed(c, op) == \E i \in 1..Len(CompletedOps(c)) : CompletedOps(c)[i] = op

\* C21: an indexing call returns a success result only if the create, the
\* bulk insert and the index build all completed; when one of them fails the
\* call raises and nothing is dropped: the collection created by the call is
\* still in the store, with the records of a completed insert.
C21_NoPartialSuccessNoCleanup ==
    \A p \in Calls :
        (IndexEnded(p) /\ calls[p].provider \in {"milvus", "chroma"})
        => LET c == calls[p]
               n == Len(c.file.records)
               made == Named(StoreOf(c.provider), CollectionName(c.file, now).name)
               create == IF c.provider = "milvus" THEN "create" ELSE "chroma_create"
               insert == IF c.provider = "milvus" THEN "insert" ELSE "chroma_add"
               build == IF c.provider = "milvus" THEN "create_index" ELSE "chroma_persist"
           IN  /\ c.result.status \in {"ok", "raised"}
               /\ c.result.status = "ok"
                  => Completed(c, create) /\ Completed(c, insert) /\ Completed(c, build)
               /\ Completed(c, create) => made # {}
               /\ Completed(c, insert) => \A e \in made : e.entities = n

\* the index build failed after the insert: the records stay in the collection
C21_Witness ==
    \E p \in Calls :
        /\ IndexEnded(p)
        /\ calls[p].provider = "milvus"
        /\ calls[p].result = RaisedResult("create_index")
        /\ \E e \in Named(milvus, calls[p].name) : e.entities = 2 /\ e.index_type = "NONE"

\* what the generator has yielded, a final ERROR event left out
YieldedBeforeError ==
    IF sOut # <<>> /\ IsError(sOut[Len(sOut)]) THEN SubSeq(sOut, 1, Len(sOut) - 1) ELSE sOut

\* C22: at every point of a run of search_and_explain_stream the text items
\* emitted after the DATA event are exactly the non-empty fragments the
\* generative capability has delivered so far, in arrival order, each once;
\* the stream ends with the capability's stream, adding nothing.
C22_FragmentsInArrivalOrder ==
    (sPc \in {"data_sent", "iter", "done", "closed"} /\ ResolveApiKey(sReq))
    => YieldedBeforeError =
          <<DataEvent(SearchSimilarTerms(sReq).result)>> \o TextEventsOf(sDelivered)

\* the capability delivered x, an empty fragment and y, then its stream ended
C22_Witness ==
    /\ StreamEnded
    /\ sDelivered = <<"x", "", "y">>
    /\ sOut = <<DataEvent(sReq.hits), TextEvent("x"), TextEvent("y")>>

(* Claims about the file strategies of the parser *)
HiResOnPdf == ParseEnded /\ pReq.method = "hi_res" /\ FileExt(pReq.file_path) = ".pdf"
FastAttempts == SelectSeq(pRes.attempts, LAMBDA a : a = "fast")

\* C23: in the hi_res strategy on a PDF the fast strategy is attempted if and
\* only if the hi_res attempt failed with a message of a missing model file or
\* of no Internet connection, and at most once; any other hi_res failure, and a
\* failure of the fast attempt, give empty content and parse_file does not raise.
C23_FastOnlyAfterNetworkFailure ==
    HiResOnPdf =>
        /\ pRes.status = "ok"
        /\ pRes.attempts[1] = "hi_res"
        /\ (FastAttempts # <<>>) <=> (pReq.part.hi \in {"fail_hub", "fail_internet"})
        /\ Len(FastAttempts) <= 1
        /\ pReq.part.hi = "fail_other" => pRes.content = <<>>
        /\ (FastAttempts # <<>> /\ pReq.part.other = "fail") => pRes.content = <<>>

\* hi_res failed for another reason: no fast attempt, empty content, no error
C23_Witness ==
    /\ HiResOnPdf
    /\ pReq.part = [hi |-> "fail_other", other |-> "ok"]
    /\ pRes.status = "ok"
    /\ pRes.attempts = <<"hi_res">>
    /\ pRes.content = <<>>

TextAndTables ==
    ParseEnded /\ pReq.method = "text_and_tables" /\ pReq.file_path # NoPath
PageFails(i) == i \in 1..Len(pReq.pdf.pages) /\ pReq.pdf.pages[i].fails
OnPage(i) == SelectSeq(pRes.content, LAMBDA e : e.page = i)
NonEmptyTables(pg) == SelectSeq(pg.tables, LAMBDA t : t # "EMPTY")

\* C24: when extraction fails on any page during text_and_tables, parse_file
\* does not raise and returns a document with empty content: the elements of
\* the pages extracted before the failure are discarded.
C24_PageFailureEmptiesContent ==
    (TextAndTables /\ \E i \in 1..Len(pReq.pdf.pages) : PageFails(i))
    => pRes.status = "ok" /\ pRes.content = <<>>

\* the first page gave a table and a text, the second page failed
C24_Witness ==
    /\ TextAndTables
    /\ ~pReq.pdf.openFails
    /\ Len(pReq.pdf.pages) = 2
    /\ pReq.pdf.pages[1] = [tables |-> <<"T">>, text |-> <<"a">>, fails |-> FALSE]
    /\ PageFails(2)
    /\ pRes.status = "ok"
    /\ pRes.content = <<>>

\* C25: the text_and_tables result is in the order of the physical pages,
\* within a page every table element comes before the text element, a page
\* gives at most one text element, and a page with no non-empty table and no
\* text gives no element.
C25_TablesBeforeTextByPage ==
    (TextAndTables /\ ~pReq.pdf.openFails /\ ~\E i \in 1..Len(pReq.pdf.pages) : PageFails(i))
    => LET c == pRes.content IN
       /\ pRes.status = "ok"
       /\ \A i, j \in 1..Len(c) : i < j =>
             /\ c[i].page <= c[j].page
             /\ c[i].page = c[j].page => ~(c[i].type = "text" /\ c[j].type = "table")
       /\ \A i \in 1..Len(c) : c[i].page \in 1..Len(pReq.pdf.pages)
       /\ \A k \in 1..Len(pReq.pdf.pages) :
             LET pg == pReq.pdf.pages[k] IN
             /\ Len(SelectSeq(OnPage(k), LAMBDA e : e.type = "text")) <= 1
             /\ Len(SelectSeq(OnPage(k), LAMBDA e : e.type = "table")) = Len(NonEmptyTables(pg))
             /\ (NonEmptyTables(pg) = <<>> /\ pg.text = <<>>) => OnPage(k) = <<>>

\* page 1 has an empty and a non-empty table and a text, page 2 has nothing
C25_Witness ==
    /\ TextAndTables
    /\ ~pReq.pdf.openFails
    /\ Len(pReq.pdf.pages) = 2
    /\ pReq.pdf.pages[1] = [tables |-> <<"EMPTY", "T">>, text |-> <<"a">>, fails |-> FALSE]
    /\ pReq.pdf.pages[2] = [tables |-> <<>>, text |-> <<>>, fails |-> FALSE]
    /\ pRes.content = <<Element("table", <<"T">>, 1, <<>>), Element("text", <<"a">>, 1, <<>>)>>

ByTitles == ParseEnded /\ pReq.method = "by_titles" /\ pReq.page_map # <<>>
\* the non-blank stripped lines of a PageMap, page after page
NonBlankLines(pm) ==
    Flatten([i \in 1..Len(pm) |->
        LET ls == SplitOn(pm[i].text, <<"\n">>, <<>>)
        IN  SelectSeq([j \in 1..Len(ls) |-> Strip(ls[j])], LAMBDA l : l # <<>>)])
\* the title a line stands under: the last title line before it, or the default
TitleBefore(lines, k) ==
    LET before == {j \in 1..(k - 1) : IsTitleLine(lines[j])}
    IN  IF before = {} THEN <<"I", "n", "t", "r", "o", "d", "u", "c", "t", "i", "o", "n">>
        ELSE lines[CHOOSE j \in before : \A m \in before : m <= j]
\* every body line of a PageMap with the title it stands under, in order
BodyLines(pm) ==
    LET lines == NonBlankLines(pm)
        all == [k \in 1..Len(lines) |->
                   [title |-> TitleBefore(lines, k), line |-> lines[k]]]
    IN  SelectSeq(all, LAMBDA x : ~IsTitleLine(x.line))
\* the lines of the emitted sections with the title of their section, in order
SectionLines(content) ==
    Flatten([i \in 1..Len(content) |->
        LET ls == SplitOn(content[i].content, <<"\n">>, <<>>)
        IN  [j \in 1..Len(ls) |-> [title |-> content[i].title, line |-> ls[j]]]])

\* C26: in by_titles parsing every non-blank line that is not a title line
\* is in exactly one emitted section, in the original order, under the last
\* title line before it (or the default title); no section has empty content,
\* so consecutive title lines emit nothing between them; the body lines after
\* the last title are flushed as a final section with the last page's number.
C26_BodyLinesUnderLastTitle ==
    ByTitles =>
        LET c == pRes.content
            lines == NonBlankLines(pReq.page_map)
        IN  /\ pRes.status = "ok"
            /\ \A i \in 1..Len(c) : c[i].type = "section" /\ c[i].content # <<>>
            /\ SectionLines(c) = BodyLines(pReq.page_map)
            /\ (lines # <<>> /\ ~IsTitleLine(lines[Len(lines)]))
               => /\ c # <<>>
                  /\ c[Len(c)].page = pReq.page_map[Len(pReq.page_map)].page
                  /\ c[Len(c)].title = TitleBefore(lines, Len(lines))

\* page 1 ends with a title and page 2 begins with one: nothing is emitted
\* between them, and the last body line is flushed under the title "A"
C26_Witness ==
    /\ ByTitles
    /\ Len(pReq.page_map) = 2
    /\ pReq.page_map[1].text = <<"1", "\n", " ", "\n", "a", "\n", "A">>
    /\ pReq.page_map[2].text = <<"A", "\n", "a">>
    /\ Len(pRes.content) = 2
    /\ pRes.content[1].title = <<"1">>
    /\ pRes.content[2] = Element("section", <<"a">>, pReq.page_map[2].page, <<"A">>)

(* Claims about the completion of the name derivation *)
\* C27: the derivation of the collection name completes without error for
\* every filename and gives a non-empty base name before the provider suffix,
\* also when the filename without '.pdf' is empty or has no alphanumeric
\* character ('.pdf', '___', '-').
C27_DerivationCompletes ==
    \A k \in 1..Len(nNames) : nNames[k].ok /\ nNames[k].base # <<>>

(* Claims about the index mode of a Milvus indexing call *)
ListedModes == {"flat", "ivf_flat", "ivf_sq8", "hnsw"}
BuiltIndexes(p) ==
    IF Completed(calls[p], "create_index") THEN Named(milvus, calls[p].name) ELSE {}

\* C28: a Milvus indexing call does not reject an index_mode outside flat,
\* ivf_flat, ivf_sq8 and hnsw: the index is built with type FLAT and no
\* parameters; for the four listed modes the index has the configured type
\* and parameters (flat: none, ivf_flat and ivf_sq8: nlist, hnsw: M and
\* efConstruction).
C28_IndexModeTable ==
    \A p \in Calls :
        (IndexEnded(p) /\ calls[p].provider = "milvus")
        => LET mode == calls[p].index_mode IN
           /\ \A e \in BuiltIndexes(p) :
                 /\ mode \notin ListedModes => e.index_type = "FLAT" /\ e.index_params = <<>>
                 /\ mode = "flat" => e.index_type = "FLAT" /\ e.index_params = <<>>
                 /\ mode = "ivf_flat" => e.index_type = "IVF_FLAT" /\ e.index_params = <<"nlist">>
                 /\ mode = "ivf_sq8" => e.index_type = "IVF_SQ8" /\ e.index_params = <<"nlist">>
                 /\ mode = "hnsw" =>
                       e.index_type = "HNSW" /\ e.index_params = <<"M", "efConstruction">>
           /\ calls[p].result.status = "ok" => BuiltIndexes(p) # {}

\* a call with an unlisted mode returned after building a FLAT index
C28_Witness ==
    \E p \in Calls :
        /\ IndexEnded(p)
        /\ calls[p].provider = "milvus"
        /\ calls[p].index_mode = "bogus"
        /\ calls[p].result.status = "ok"
        /\ \E e \in Named(milvus, calls[p].name) :
              e.index_type = "FLAT" /\ e.index_params = <<>> /\ e.loaded

====
